---- MODULE Spec2Model ----
(***************************************************************************)
(* Daftar long-term memory store: the policy & lifecycle engine            *)
(* (app/memory/policy.py) on top of the SQLite persistence layer           *)
(* (app/memory/db.py).                                                     *)
(*                                                                         *)
(* A content string is a sequence of one-character strings, so that        *)
(* str.lower(), str.strip(), str.split() and the SHA-256 content hash are  *)
(* computed on the characters.  A confidence score is counted in tenths    *)
(* (0.6 is 6).  A memory id is the row's index in `memories` (AUTOINCREMENT *)
(* primary key, rows are never deleted); id 0 stands for NULL / None.      *)
(*                                                                         *)
(* Every database method runs in one SQLite transaction, so one database   *)
(* call is one atomic step; a call of evaluate_and_store is a sequence of  *)
(* such steps, interleaved with the steps of the other running calls.      *)
(***************************************************************************)
EXTENDS Integers, Sequences, FiniteSets, TLC

VARIABLES
    memories,         \* table memories: sequence of rows, id = index
    memory_versions,  \* table memory_versions: set of [memory_id, content, version]
    calls,            \* per worker thread, the local state of its evaluate_and_store call
    begun,            \* number of evaluate_and_store calls entered so far
    lineage_obs,      \* observer: per memory id, the state its supersede target had when it was inserted
    seq_obs,          \* observer of a single caller: its previous call, and the store when its current call began
    now,              \* the clock: int(time.time()), CURRENT_TIMESTAMP
    rate_limits,      \* table rate_limits: set of [user_id, endpoint, window_start, request_count]
    retrievals,       \* per worker thread, the local state of its retrieve_memory call
    requested,        \* number of retrieve_memory calls entered so far
    rate_obs,         \* observer: the check_rate_limit calls so far, as [user_id, window_start, k]
    probe,            \* a pair of contents handed to _find_conflict's overlap test, and its answers
    admin,            \* the direct set_memory_state calls so far: their number, the last one and its result
    edits,            \* per worker thread, the local state of its edit_memory call
    edited,           \* number of edit_memory calls entered so far
    settings_overrides,  \* table settings_overrides: set of [key, value]
    settings_obs,     \* observer: the number of set_setting_override calls, and per key the last value passed
    tools,            \* per worker thread, the local state of its MemoryTool.store_memory call
    tool_calls,       \* number of store_memory calls entered so far
    lookups,          \* per worker thread, the local state of its MemoryTool.retrieve_memory call
    overtaken,        \* observer: the threads at their CAS whose target another thread's CAS superseded since they read it
    history,          \* the history file of one session, its chat call under way, and the last MemoryManager.prune call
    legacy_db,        \* the database of assistant/memory/db.py: its tables memories and memory_versions
    stores            \* per worker thread, the local state of its store_memory call on that database

retrieval_vars == <<now, rate_limits, retrievals, requested, rate_obs>>

evaluation_vars == <<memories, memory_versions, calls, begun, lineage_obs, seq_obs>>

tool_vars == <<probe, admin, edits, edited, settings_overrides, settings_obs,
               tools, tool_calls, lookups, overtaken, history, legacy_db, stores>>

vars == <<memories, memory_versions, calls, begun, lineage_obs, seq_obs,
          now, rate_limits, retrievals, requested, rate_obs, probe, admin,
          edits, edited, settings_overrides, settings_obs, tools, tool_calls, lookups,
          overtaken, history, legacy_db, stores>>

\* ---------------------------------------------------------------- bounds

MaxCalls == 4

\* storage operations of one call that fail unexpectedly
MaxFaults == 1

\* evaluate_and_store calls before and between the retrievals
MaxWrites == 2

\* retrieve_memory calls issued while the store is written
MaxRetrievals == 2

\* seconds of wall-clock time while the store is written and read
MaxTime == 1

\* facts of one user and subject stored by the fill loop
MaxFill == 21

\* retrieve_memory calls issued while the fill loop runs
MaxCapRetrievals == 2

\* retrieve_memory calls of the throttled user
MaxRateRequests == 52

\* retrieve_memory calls of another user or with invalid arguments, issued first
MaxOtherRequests == 1

\* retrieve_memory calls of a second user in one window
MaxNeighbourRequests == 1

\* seconds of wall-clock time while the throttled user calls
MaxRateTime == 61

\* retrieve_memory calls while the rate limiter's storage may fail
MaxFaultRequests == 6

\* facts stored beside the failing retrievals
MaxFaultWrites == 1

\* store_memory calls of the facade, and the overrides written beside them
MaxToolCalls == 3
MaxToolOverrides == 2

\* set_setting_override calls
MaxOverrides == 3

\* edit_memory calls, and the facts stored for them
MaxEdits == 3
MaxEditWrites == 2

\* facts stored through the policy engine beside the edits
MaxEngineWrites == 1

\* direct set_memory_state calls, and the stores made for them
MaxSetStates == 3
MaxStateWrites == 3

\* calls of each kind while the database may fail, and the tool's stores among them
MaxOutageCalls == 1

MaxOutageStores == 3

\* the overlap test: words to choose from, and words of one content
ProbePool == 7
MaxProbeWords == 5

\* ---------------------------------------------------------------- program constants

max_retries == 5

DUPLICATE == -1

\* actual_limit = min(limit, 20)
HARD_CAP == 20

\* check_rate_limit(..., max_requests=50, window_seconds=60)
max_requests == 50

window_seconds == 60

\* ---------------------------------------------------------------- strings

Min(S) == CHOOSE x \in S : \A y \in S : x <= y

Max(S) == CHOOSE x \in S : \A y \in S : x >= y

IsSpace(ch) == ch = " "

LowerChar(ch) ==
    CASE ch = "A" -> "a"
      [] ch = "B" -> "b"
      [] ch = "C" -> "c"
      [] OTHER -> ch

\* str.lower()
Lower(s) == [i \in 1..Len(s) |-> LowerChar(s[i])]

\* str.strip(): drop leading and trailing whitespace
Strip(s) ==
    LET solid == {i \in 1..Len(s) : ~IsSpace(s[i])}
    IN  IF solid = {} THEN <<>> ELSE SubSeq(s, Min(solid), Max(solid))

\* set(str.split()): the maximal runs of non-whitespace characters
SplitSet(s) ==
    {SubSeq(s, i, j) : <<i, j>> \in
        {p \in (1..Len(s)) \X (1..Len(s)) :
            /\ p[1] <= p[2]
            /\ \A k \in p[1]..p[2] : ~IsSpace(s[k])
            /\ (p[1] = 1 \/ IsSpace(s[p[1] - 1]))
            /\ (p[2] = Len(s) \/ IsSpace(s[p[2] + 1]))}}

\* set(content.lower().split())
Words(content) == SplitSet(Lower(content))

CharCode(ch) ==
    CASE ch = " " -> 1
      [] ch = "a" -> 2
      [] ch = "b" -> 3
      [] ch = "c" -> 4
      [] ch = "A" -> 5
      [] ch = "B" -> 6
      [] ch = "C" -> 7

\* hashlib.sha256(content.encode('utf-8')).hexdigest(): a digest of the exact
\* characters (no trimming, no case folding), different for different contents.
\* The digest is the content's numeral in base 8 over the character codes.
RECURSIVE content_hash(_)
content_hash(content) ==
    IF content = <<>> THEN 0
    ELSE CharCode(Head(content)) + 8 * content_hash(Tail(content))

\* ---------------------------------------------------------------- persistence layer

\* SELECT MAX(version) ... JOIN memory_versions mv: the content of the latest version
latest_content(versions, memory_id) ==
    LET mine == {v \in versions : v.memory_id = memory_id}
        top  == CHOOSE v \in mine : \A u \in mine : u.version <= v.version
    IN  top.content

\* the partial unique index is missing
idx_missing(mems, memory_id, user_id, hash) == FALSE

\* CREATE UNIQUE INDEX idx_active_memories_hash ON memories(user_id, content_hash)
\* WHERE state = 'active': would row `memory_id` (0: a new row), being active with
\* this user and hash, collide with another active row?
idx_active_memories_hash_violated(mems, memory_id, user_id, hash) ==
    \E j \in 1..Len(mems) :
        /\ j # memory_id
        /\ mems[j].state = "active"
        /\ mems[j].user_id = user_id
        /\ mems[j].content_hash = hash

\* MemoryDB.insert_memory when a statement or the commit raises anything but the
\* UNIQUE failure: the transaction is rolled back, return None (0)
insert_memory_failed(mems, versions) ==
    [ret |-> 0, memories |-> mems, memory_versions |-> versions]

\* MemoryDB.insert_memory served by the database: row and version 1 in one
\* transaction; the UNIQUE constraint failure rolls the transaction back and
\* returns -1.
insert_memory(mems, versions, p, state, supersedes_memory_id) ==
    LET hash == content_hash(p.content)
        memory_id == Len(mems) + 1
        row == [id |-> memory_id,
                session_id |-> p.session_id,
                user_id |-> p.user_id,
                subject |-> p.subject,
                state |-> state,
                supersedes_memory_id |-> supersedes_memory_id,
                confidence_score |-> p.confidence_score,
                source |-> p.source,
                content_hash |-> hash,
                access_mode |-> p.access_mode,
                created_at |-> now]
    IN  IF state = "active" /\ idx_active_memories_hash_violated(mems, 0, p.user_id, hash)
        THEN [ret |-> DUPLICATE, memories |-> mems, memory_versions |-> versions]
        ELSE [ret |-> memory_id,
              memories |-> Append(mems, row),
              memory_versions |-> versions \cup
                  {[memory_id |-> memory_id, content |-> p.content, version |-> 1]}]

\* the UPDATE writes a second column: SET state = ?, confidence_score = 0
set_memory_state_resets_confidence(mems, memory_id, new_state) ==
    IF memory_id \notin 1..Len(mems) \/ mems[memory_id].state = new_state
    THEN [ret |-> FALSE, memories |-> mems]
    ELSE IF /\ new_state = "active"
            /\ idx_active_memories_hash_violated(mems, memory_id,
                   mems[memory_id].user_id, mems[memory_id].content_hash)
    THEN [ret |-> FALSE, memories |-> mems]
    ELSE [ret |-> TRUE,
          memories |-> [mems EXCEPT ![memory_id].state = new_state,
                                    ![memory_id].confidence_score = 0]]

\* the UPDATE is not checked against the unique index
set_memory_state_unchecked(mems, memory_id, new_state) ==
    IF memory_id \notin 1..Len(mems) \/ mems[memory_id].state = new_state
    THEN [ret |-> FALSE, memories |-> mems]
    ELSE [ret |-> TRUE, memories |-> [mems EXCEPT ![memory_id].state = new_state]]

\* the UPDATE has no `AND state != ?`: it reports a change whatever the state was
set_memory_state_blind(mems, memory_id, new_state) ==
    IF memory_id \notin 1..Len(mems)
    THEN [ret |-> FALSE, memories |-> mems]
    ELSE [ret |-> TRUE, memories |-> [mems EXCEPT ![memory_id].state = new_state]]

\* the UPDATE is reported but never committed
set_memory_state_no_commit(mems, memory_id, new_state) ==
    IF memory_id \notin 1..Len(mems) \/ mems[memory_id].state = new_state
    THEN [ret |-> FALSE, memories |-> mems]
    ELSE [ret |-> TRUE, memories |-> mems]

\* MemoryDB.set_memory_state: UPDATE memories SET state = ? WHERE id = ? AND state != ?
\* returns rowcount > 0; an IntegrityError of the unique index is caught and
\* returns False with the transaction rolled back.
set_memory_state(mems, memory_id, new_state) ==
    IF memory_id \notin 1..Len(mems) \/ mems[memory_id].state = new_state
    THEN [ret |-> FALSE, memories |-> mems]
    ELSE IF /\ new_state = "active"
            /\ idx_active_memories_hash_violated(mems, memory_id,
                   mems[memory_id].user_id, mems[memory_id].content_hash)
    THEN [ret |-> FALSE, memories |-> mems]
    ELSE [ret |-> TRUE, memories |-> [mems EXCEPT ![memory_id].state = new_state]]

\* the longest list of which every order is enumerated
MaxShuffled == 4

\* The orders of a list: the lists that hold its elements once each. Of a list
\* longer than MaxShuffled only the orders that bring one element to the front
\* and leave the others as they were: _find_conflict, the one reader of the
\* list, walks it up to the first colliding memory, so these orders give every
\* result an evaluation can have.
Orders(list) ==
    IF Len(list) <= MaxShuffled
    THEN {[i \in 1..Len(list) |-> list[p[i]]] : p \in Permutations(1..Len(list))}
    ELSE {<<list[k]>> \o SubSeq(list, 1, k - 1) \o SubSeq(list, k + 1, Len(list)) :
             k \in 1..Len(list)}

\* MemoryDB.get_active_memories_by_subject: the active rows of (session, user,
\* subject) with their latest content. The SELECT has no ORDER BY: the rows
\* come in the order of the plan SQLite chooses (by id when it scans the
\* versions first, by content hash when it drives from the index of the
\* active rows), so the call answers one of the orders of these rows.
get_active_memories_by_subject(mems, versions, session_id, user_id, subject) ==
    LET hit(m) == /\ m.session_id = session_id
                  /\ m.user_id = user_id
                  /\ m.subject = subject
                  /\ m.state = "active"
        rows == SelectSeq(mems, hit)
    IN  Orders([i \in 1..Len(rows) |->
                   [id |-> rows[i].id,
                    content |-> latest_content(versions, rows[i].id),
                    confidence_score |-> rows[i].confidence_score,
                    source |-> rows[i].source]])

\* the elements of a list
Range(list) == {list[i] : i \in 1..Len(list)}

\* mv.content LIKE '%query%': the query occurs in the content, letters compared
\* without case
Like(content, query) ==
    \E i \in 0..(Len(content) - Len(query)) :
        Lower(SubSeq(content, i + 1, i + Len(query))) = Lower(query)

\* CASE m.source WHEN 'manual' THEN 3 WHEN 'imported' THEN 2 WHEN 'inferred' THEN 1 ELSE 0
source_weight(source) ==
    CASE source = "manual" -> 3
      [] source = "imported" -> 2
      [] source = "inferred" -> 1
      [] OTHER -> 0

\* the order without its last key
ranks_before_no_id(a, b) ==
    \/ source_weight(a.source) > source_weight(b.source)
    \/ /\ source_weight(a.source) = source_weight(b.source)
       /\ \/ a.confidence_score > b.confidence_score
          \/ /\ a.confidence_score = b.confidence_score
             /\ a.created_at > b.created_at

\* ORDER BY source weight DESC, m.confidence_score DESC, m.created_at DESC, m.id DESC:
\* row a must come before row b
ranks_before(a, b) ==
    \/ source_weight(a.source) > source_weight(b.source)
    \/ /\ source_weight(a.source) = source_weight(b.source)
       /\ \/ a.confidence_score > b.confidence_score
          \/ /\ a.confidence_score = b.confidence_score
             /\ \/ a.created_at > b.created_at
                \/ /\ a.created_at = b.created_at
                   /\ a.id > b.id

\* the user filter of _build_access_filter, which also admits shared rows
where_matches_shared(mems, versions, id, user_id, query, scope, state_filter) ==
    /\ (mems[id].user_id = user_id \/ mems[id].access_mode = "shared")
    /\ mems[id].state = state_filter
    /\ \/ "*" \in Range(scope)
       \/ mems[id].subject \in Range(scope)
       \/ (scope = <<>> /\ mems[id].subject = "")
    /\ (query = <<>> \/ Like(latest_content(versions, id), query))

\* WHERE m.user_id = ? AND m.state = ? AND (? OR m.subject IN (...)) [AND mv.content LIKE ?]
\* (an empty scope list gives IN (''))
where_matches(mems, versions, id, user_id, query, scope, state_filter) ==
    /\ mems[id].user_id = user_id
    /\ mems[id].state = state_filter
    /\ \/ "*" \in Range(scope)
       \/ mems[id].subject \in Range(scope)
       \/ (scope = <<>> /\ mems[id].subject = "")
    /\ (query = <<>> \/ Like(latest_content(versions, id), query))

\* the sequences of the ids of S that ORDER BY allows
RECURSIVE ordered(_, _)
ordered(mems, S) ==
    IF S = {} THEN {<<>>}
    ELSE UNION {{<<first>> \o rest : rest \in ordered(mems, S \ {first})} :
                first \in {x \in S : \A y \in S \ {x} : ~ranks_before(mems[y], mems[x])}}

\* LIMIT ?: the first `limit` rows; a negative limit is no limit
sql_limit(rows, limit) ==
    IF limit < 0 \/ limit >= Len(rows) THEN rows ELSE SubSeq(rows, 1, limit)

\* MemoryDB.retrieve_memories: the result lists the query may return
retrieve_memories(mems, versions, user_id, query, scope, state_filter, limit) ==
    LET hits == {id \in 1..Len(mems) :
                    where_matches(mems, versions, id, user_id, query, scope, state_filter)}
        result(ids) == [i \in 1..Len(ids) |->
                           [id |-> ids[i],
                            session_id |-> mems[ids[i]].session_id,
                            subject |-> mems[ids[i]].subject,
                            content |-> latest_content(versions, ids[i]),
                            confidence_score |-> mems[ids[i]].confidence_score,
                            source |-> mems[ids[i]].source,
                            created_at |-> mems[ids[i]].created_at,
                            state |-> mems[ids[i]].state]]
    IN  {result(sql_limit(ids, limit)) : ids \in ordered(mems, hits)}

\* the limiter fails closed
check_rate_limit_fails_closed(limits) == [ret |-> FALSE, rate_limits |-> limits]

\* MemoryDB.check_rate_limit, except Exception: the transaction is rolled back and
\* True is returned
check_rate_limit_failed(limits) == [ret |-> TRUE, rate_limits |-> limits]

\* the cleanup is DELETE ... WHERE window_start < current_time
check_rate_limit_prunes_current(limits, current_time, user_id, endpoint, max, window) ==
    LET window_start == current_time - (current_time % window)
        kept == {r \in limits : ~(r.window_start < current_time)}
        mine == {r \in kept : /\ r.user_id = user_id
                              /\ r.endpoint = endpoint
                              /\ r.window_start = window_start}
        count == IF mine = {} THEN 1 ELSE (CHOOSE r \in mine : TRUE).request_count + 1
    IN  [ret |-> count <= max,
         rate_limits |-> (kept \ mine) \cup
             {[user_id |-> user_id, endpoint |-> endpoint,
               window_start |-> window_start, request_count |-> count]}]

\* MemoryDB.check_rate_limit: DELETE the buckets older than a window, upsert the
\* bucket of (user_id, endpoint, window_start) RETURNING request_count, compare
check_rate_limit(limits, current_time, user_id, endpoint, max, window) ==
    LET window_start == current_time - (current_time % window)
        kept == {r \in limits : ~(r.window_start < current_time - window)}
        mine == {r \in kept : /\ r.user_id = user_id
                              /\ r.endpoint = endpoint
                              /\ r.window_start = window_start}
        count == IF mine = {} THEN 1 ELSE (CHOOSE r \in mine : TRUE).request_count + 1
    IN  [ret |-> count <= max,
         rate_limits |-> (kept \ mine) \cup
             {[user_id |-> user_id, endpoint |-> endpoint,
               window_start |-> window_start, request_count |-> count]}]

\* ---------------------------------------------------------------- policy engine

\* the overlap is taken over the larger of the two word sets
Collides_over_larger(new_content, existing_content) ==
    LET words == Words(new_content)
        existing_words == Words(existing_content)
        larger == IF Cardinality(words) >= Cardinality(existing_words)
                  THEN Cardinality(words) ELSE Cardinality(existing_words)
    IN  /\ words # {}
        /\ existing_words # {}
        /\ 5 * Cardinality(words \cap existing_words) >= 3 * larger

\* overlap = len(words & existing_words) / min(len(words), len(existing_words)) >= 0.6
Collides(new_content, existing_content) ==
    LET words == Words(new_content)
        existing_words == Words(existing_content)
        smaller == IF Cardinality(words) <= Cardinality(existing_words)
                   THEN Cardinality(words) ELSE Cardinality(existing_words)
    IN  /\ words # {}
        /\ existing_words # {}
        /\ 5 * Cardinality(words \cap existing_words) >= 3 * smaller

\* no memory is ever found to conflict
find_conflict_none(new_content, active_memories) == 0

\* PolicyEngine._find_conflict: the id of the first colliding memory, 0 for None
find_conflict(new_content, active_memories) ==
    LET hits == {i \in 1..Len(active_memories) :
                    Collides(new_content, active_memories[i].content)}
    IN  IF hits = {} THEN 0 ELSE Min(hits)

\* precedence = {"manual": 3, "imported": 2, "inferred": 1}; precedence.get(source, 1)
precedence(source) ==
    CASE source = "manual" -> 3
      [] source = "imported" -> 2
      [] source = "inferred" -> 1
      [] OTHER -> 1

\* incoming_priority < existing_priority or (incoming_priority == existing_priority
\* and confidence_score < conflict_mem['confidence_score'])
loses_precedence(source, confidence_score, conflict_mem) ==
    \/ precedence(source) < precedence(conflict_mem.source)
    \/ /\ precedence(source) = precedence(conflict_mem.source)
       /\ confidence_score < conflict_mem.confidence_score

\* ---------------------------------------------------------------- proposals

C_ab == <<"a", " ", "b">>

C_abc == <<"a", " ", "b", " ", "c">>

C_ab_trail == <<"a", " ", "b", " ">>

C_Ab == <<"A", " ", "b">>

C_blank == <<" ">>

C_blank2 == <<" ", " ">>

Proposal(session_id, user_id, subject, content, confidence_score, source) ==
    [session_id |-> session_id, user_id |-> user_id, subject |-> subject,
     content |-> content, confidence_score |-> confidence_score, source |-> source,
     access_mode |-> "private"]

\* the same proposal with access_mode = "shared"
Shared(p) == [p EXCEPT !.access_mode = "shared"]

\* The arguments of the evaluate_and_store calls of the general specification:
\* two sessions, two users, colliding and trim-equal contents, two precedences.
Proposals ==
    {Proposal("s1", "u1", "Work", C_ab, 6, "inferred"),
     Proposal("s1", "u1", "Work", C_abc, 6, "inferred"),
     Proposal("s2", "u1", "Work", C_abc, 6, "inferred"),
     Proposal("s1", "u1", "Work", C_ab, 6, "manual"),
     Proposal("s1", "u1", "Work", C_ab_trail, 4, "inferred"),
     Proposal("s1", "u2", "Work", C_ab, 6, "inferred")}

\* The arguments of the calls of the single caller: those, and the same fact with
\* trailing blank in another session, with other capitals, a lower confidence, an
\* imported source, and two contents of blanks only.
SeqProposals ==
    Proposals \cup
    {Proposal("s2", "u1", "Work", C_ab_trail, 6, "inferred"),
     Proposal("s1", "u1", "Work", C_Ab, 4, "inferred"),
     Proposal("s1", "u1", "Work", C_abc, 6, "imported"),
     Proposal("s1", "u1", "Work", C_blank, 6, "inferred"),
     Proposal("s1", "u1", "Work", C_blank2, 6, "inferred")}

\* ---------------------------------------------------------------- evaluate_and_store

\* the worker threads that may call the engine
Threads == {"t1", "t2", "t3"}

\* a thread outside evaluate_and_store
IdleCall ==
    [session_id |-> "", user_id |-> "", subject |-> "",
     content |-> <<>>, confidence_score |-> 0, source |-> "", access_mode |-> "",
     pc |-> "idle", attempt |-> 0, conflict_id |-> 0,
     status |-> "none", reason_code |-> "none", memory_id |-> 0,
     reads |-> 0, db_ret |-> "none", own_superseded |-> {},
     correlation_id |-> "", audit |-> <<>>, faults |-> <<>>]

\* memory_logger.info({"event_type": ..., "correlation_id": ..., "reason_code": ...})
LogRecord(event_type, correlation_id, reason_code) ==
    [event_type |-> event_type, correlation_id |-> correlation_id,
     reason_code |-> reason_code]

\* the call's local state when evaluate_and_store is entered (attempt = 0), after
\* its policy_evaluation_started record
NewCall(p, correlation_id) ==
    [session_id |-> p.session_id, user_id |-> p.user_id, subject |-> p.subject,
     content |-> p.content, confidence_score |-> p.confidence_score, source |-> p.source,
     access_mode |-> p.access_mode,
     pc |-> "read", attempt |-> 0, conflict_id |-> 0,
     status |-> "none", reason_code |-> "none", memory_id |-> 0,
     reads |-> 0, db_ret |-> "none", own_superseded |-> {},
     correlation_id |-> correlation_id,
     audit |-> <<LogRecord("policy_evaluation_started", correlation_id, "none")>>,
     faults |-> <<>>]

\* return of a result (status, reason_code, memory_id) (status, reason_code, memory_id)
Decide(c, status, reason_code, memory_id) ==
    [c EXCEPT !.pc = "done", !.status = status, !.reason_code = reason_code,
              !.memory_id = memory_id]

\* PolicyEngine._log_policy_decision: the policy_resolution_decided record
log_policy_decision(c, reason_code) ==
    [c EXCEPT !.audit = Append(c.audit,
        LogRecord("policy_resolution_decided", c.correlation_id, reason_code))]

\* self._log_policy_decision(...); return {status, reason_code, memory_id}
Resolve(c, status, reason_code, memory_id) ==
    Decide(log_policy_decision(c, reason_code), status, reason_code, memory_id)

\* the loop runs once more than max_retries
Continue_one_more(c) ==
    IF c.attempt + 1 <= max_retries
    THEN [c EXCEPT !.attempt = c.attempt + 1, !.pc = "read"]
    ELSE Decide(c, "error", "max_retries_exceeded", 0)

\* `continue`: the next iteration of `for attempt in range(max_retries)`, or the
\* return after the loop
Continue(c) ==
    IF c.attempt + 1 < max_retries
    THEN [c EXCEPT !.attempt = c.attempt + 1, !.pc = "read"]
    ELSE Decide(c, "error", "max_retries_exceeded", 0)

\* thread t enters evaluate_and_store with the arguments p
BeginOf(t, p) ==
    /\ calls[t].pc = "idle"
    /\ calls' = [calls EXCEPT ![t] = NewCall(p, t)]
    /\ begun' = begun + 1
    /\ UNCHANGED <<memories, memory_versions, lineage_obs>>
    /\ UNCHANGED retrieval_vars
    /\ UNCHANGED tool_vars

\* the result reaches the caller of thread t; the thread is free for its next call
ReturnOf(t) ==
    /\ calls[t].pc = "done"
    /\ calls' = [calls EXCEPT ![t] = IdleCall]
    /\ UNCHANGED <<memories, memory_versions, begun, lineage_obs>>
    /\ UNCHANGED retrieval_vars
    /\ UNCHANGED tool_vars

\* a thread of T enters evaluate_and_store with arguments of P
Begin(P, T) ==
    /\ begun < MaxCalls
    /\ \E t \in T, p \in P : BeginOf(t, p)
    /\ UNCHANGED seq_obs

Return ==
    /\ \E t \in Threads : ReturnOf(t)
    /\ UNCHANGED seq_obs

\* a storage operation of the call may still fail unexpectedly
CanFail(i) == Len(calls[i].faults) < MaxFaults

\* one attempt up to its first write, given the list the read returned: the
\* conflict detection and the EXISTS / REJECT decisions
ReadStep(i, active_memories, fault) ==
    /\ calls[i].pc = "read"
    /\ \E k \in {find_conflict(calls[i].content, active_memories)} :
       LET c == [calls[i] EXCEPT !.reads = calls[i].reads + 1,
                                 !.faults = calls[i].faults \o fault]
       IN  calls' = [calls EXCEPT ![i] =
               IF k = 0
               THEN [c EXCEPT !.pc = "insert_accept", !.conflict_id = 0]
               ELSE IF Strip(c.content) = Strip(active_memories[k].content)
               THEN Resolve(c, "exists", "EXISTS_REASON_EXACT_MATCH", 0)
               ELSE IF loses_precedence(c.source, c.confidence_score, active_memories[k])
               THEN Resolve([c EXCEPT !.conflict_id = active_memories[k].id],
                            "rejected", "REJECT_REASON_PRECEDENCE_TOO_LOW", 0)
               ELSE [c EXCEPT !.pc = "cas", !.conflict_id = active_memories[k].id]]
    /\ UNCHANGED <<memories, memory_versions, begun, lineage_obs, seq_obs>>
    /\ UNCHANGED retrieval_vars
    /\ UNCHANGED tool_vars

\* active_memories = self.db.get_active_memories_by_subject(session_id, user_id, subject)
ReadOf(i) ==
    \E active_memories \in get_active_memories_by_subject(memories, memory_versions,
            calls[i].session_id, calls[i].user_id, calls[i].subject) :
        ReadStep(i, active_memories, <<>>)

\* the read raises inside get_active_memories_by_subject: except Exception: return []
ReadFaultOf(i) ==
    /\ CanFail(i)
    /\ ReadStep(i, <<>>, <<"get_active_memories_by_subject">>)

\* success = self.db.set_memory_state(conflict_mem['id'], "superseded"), given
\* what the database call did and returned
CasStep(i, r, fault) ==
    /\ calls[i].pc = "cas"
    /\ LET c == [calls[i] EXCEPT !.faults = calls[i].faults \o fault]
       IN  /\ memories' = r.memories
           /\ calls' = [calls EXCEPT ![i] =
                  IF r.ret
                  THEN [c EXCEPT !.pc = "insert_supersede", !.db_ret = "true",
                                 !.own_superseded = c.own_superseded \cup {c.conflict_id}]
                  ELSE Continue([c EXCEPT !.db_ret = "false"])]
           /\ overtaken' = (overtaken \ {i}) \cup
                  (IF r.ret
                   THEN {j \in Threads \ {i} : /\ calls[j].pc = "cas"
                                               /\ calls[j].conflict_id = c.conflict_id}
                   ELSE {})
    /\ UNCHANGED <<memory_versions, begun, lineage_obs, seq_obs>>
    /\ UNCHANGED retrieval_vars
    /\ UNCHANGED <<probe, admin, edits, edited, settings_overrides, settings_obs,
                   tools, tool_calls, lookups, history, legacy_db, stores>>

CasOf(i) ==
    \E r \in {set_memory_state(memories, calls[i].conflict_id, "superseded")} :
        CasStep(i, r, <<>>)

\* the UPDATE raises inside set_memory_state: except Exception: return False
CasFaultOf(i) ==
    /\ CanFail(i)
    /\ CasStep(i, [ret |-> FALSE, memories |-> memories], <<"set_memory_state">>)

\* new_id = self.db.insert_memory(..., supersedes_memory_id=conflict_mem['id']), given
\* what the database call did and returned (0: None)
InsertSupersedeStep(i, r, fault) ==
    /\ UNCHANGED <<begun, seq_obs>>
    /\ UNCHANGED retrieval_vars
    /\ UNCHANGED tool_vars
    /\ calls[i].pc = "insert_supersede"
    /\ LET c == [calls[i] EXCEPT !.faults = calls[i].faults \o fault]
       IN  /\ memories' = r.memories
           /\ memory_versions' = r.memory_versions
           /\ IF r.ret = DUPLICATE
              THEN /\ calls' = [calls EXCEPT ![i] =
                           [c EXCEPT !.pc = "rollback", !.db_ret = "duplicate"]]
                   /\ UNCHANGED lineage_obs
              ELSE /\ calls' = [calls EXCEPT ![i] =
                           Resolve([c EXCEPT !.db_ret = IF r.ret = 0 THEN "none"
                                                        ELSE "inserted"],
                                   "success", "SUPERSEDE_REASON_CONTENT_OVERLAP", r.ret)]
                   /\ lineage_obs' = IF r.ret = 0 THEN lineage_obs
                                     ELSE Append(lineage_obs, memories[c.conflict_id].state)

InsertSupersedeOf(i) ==
    \E r \in {insert_memory(memories, memory_versions, calls[i], "active",
                            calls[i].conflict_id)} :
        InsertSupersedeStep(i, r, <<>>)

\* the INSERT raises inside insert_memory: except Exception: return None
InsertSupersedeFaultOf(i) ==
    /\ CanFail(i)
    /\ InsertSupersedeStep(i, insert_memory_failed(memories, memory_versions),
                           <<"insert_memory">>)

\* self.db.set_memory_state(conflict_mem['id'], "active"); continue
RollbackStep(i, r, fault) ==
    /\ calls[i].pc = "rollback"
    /\ LET c == [calls[i] EXCEPT !.faults = calls[i].faults \o fault]
       IN  /\ memories' = r.memories
           /\ calls' = [calls EXCEPT ![i] = Continue(
                  [c EXCEPT !.db_ret = IF r.ret THEN "true" ELSE "false",
                            !.own_superseded = IF r.ret
                                               THEN c.own_superseded \ {c.conflict_id}
                                               ELSE c.own_superseded])]
    /\ UNCHANGED <<memory_versions, begun, lineage_obs, seq_obs>>
    /\ UNCHANGED retrieval_vars
    /\ UNCHANGED tool_vars

RollbackOf(i) ==
    \E r \in {set_memory_state(memories, calls[i].conflict_id, "active")} :
        RollbackStep(i, r, <<>>)

RollbackFaultOf(i) ==
    /\ CanFail(i)
    /\ RollbackStep(i, [ret |-> FALSE, memories |-> memories], <<"set_memory_state">>)

\* new_id = self.db.insert_memory(..., supersedes_memory_id=None) and the
\* EXISTS_REASON_NATIVE_CONSTRAINT / error / ACCEPT returns
InsertAcceptStep(i, r, fault) ==
    /\ UNCHANGED <<begun, seq_obs>>
    /\ UNCHANGED retrieval_vars
    /\ UNCHANGED tool_vars
    /\ calls[i].pc = "insert_accept"
    /\ LET c == [calls[i] EXCEPT !.faults = calls[i].faults \o fault]
       IN  /\ memories' = r.memories
           /\ memory_versions' = r.memory_versions
           /\ IF r.ret = DUPLICATE
              THEN /\ calls' = [calls EXCEPT ![i] =
                           Resolve([c EXCEPT !.db_ret = "duplicate"], "exists",
                                   "EXISTS_REASON_NATIVE_CONSTRAINT", 0)]
                   /\ UNCHANGED lineage_obs
              ELSE IF r.ret = 0
              THEN /\ calls' = [calls EXCEPT ![i] =
                           Decide([c EXCEPT !.db_ret = "none"], "error",
                                  "failed_to_store_memory", 0)]
                   /\ UNCHANGED lineage_obs
              ELSE /\ calls' = [calls EXCEPT ![i] =
                           Resolve([c EXCEPT !.db_ret = "inserted"], "success",
                                   "ACCEPT_REASON_NEW_FACT", r.ret)]
                   /\ lineage_obs' = Append(lineage_obs, "none")

InsertAcceptOf(i) ==
    \E r \in {insert_memory(memories, memory_versions, calls[i], "active", 0)} :
        InsertAcceptStep(i, r, <<>>)

InsertAcceptFaultOf(i) ==
    /\ CanFail(i)
    /\ InsertAcceptStep(i, insert_memory_failed(memories, memory_versions),
                        <<"insert_memory">>)

Read == \E t \in Threads : ReadOf(t)

Cas == \E t \in Threads : CasOf(t)

InsertSupersede == \E t \in Threads : InsertSupersedeOf(t)

Rollback == \E t \in Threads : RollbackOf(t)

InsertAccept == \E t \in Threads : InsertAcceptOf(t)

ReadFault == \E t \in Threads : ReadFaultOf(t)

CasFault == \E t \in Threads : CasFaultOf(t)

InsertSupersedeFault == \E t \in Threads : InsertSupersedeFaultOf(t)

RollbackFault == \E t \in Threads : RollbackFaultOf(t)

InsertAcceptFault == \E t \in Threads : InsertAcceptFaultOf(t)

\* ---------------------------------------------------------------- retrieve_memory

\* the arguments of one PolicyEngine.retrieve_memory call; scope is <<>> for None
\* and <<list>> for a list
Request(user_id, query, scope, state_filter, limit) ==
    [user_id |-> user_id, query |-> query, scope |-> scope,
     state_filter |-> state_filter, limit |-> limit]

\* the set of states admits any text
allowed_states_with_bogus == {"active", "superseded", "archived", "deleted", "bogus"}

allowed_states == {"active", "superseded", "archived", "deleted"}

\* actual_limit = min(limit, 20)
actual_limit(limit) == IF limit < HARD_CAP THEN limit ELSE HARD_CAP

\* if scope is None: scope = ["*"]
scope_or_all(scope) == IF scope = <<>> THEN <<"*">> ELSE scope[1]

IdleRetrieval ==
    [pc |-> "idle", user_id |-> "", query |-> <<>>, scope |-> <<>>,
     state_filter |-> "", limit |-> 0, actual_limit |-> 0,
     current_time |-> 0, is_allowed |-> FALSE, fault |-> FALSE,
     query_fault |-> FALSE, status |-> "none", detail |-> "none", results |-> <<>>,
     at |-> [memories |-> <<>>, memory_versions |-> {}]]

\* return {"status": ..., "detail"/"results": ...}
Answer(r, status, detail, results) ==
    [r EXCEPT !.pc = "done", !.status = status, !.detail = detail, !.results = results]

\* the requests of user_id that read a clock value of the fixed window that holds
\* `time`, and whose rate-limit check has run
Observed(user_id, time) ==
    LET seen == {o \in rate_obs : o.user_id = user_id /\ o.window = time \div window_seconds}
    IN  IF seen = {} THEN 0 ELSE (CHOOSE o \in seen : TRUE).n

Observe(user_id, time) ==
    {o \in rate_obs : ~(o.user_id = user_id /\ o.window = time \div window_seconds)}
        \cup {[user_id |-> user_id, window |-> time \div window_seconds,
                n |-> Observed(user_id, time) + 1]}

\* retrieve_memory up to the rate limiter's transaction: input validation, the
\* hard cap, and check_rate_limit's reading of the clock
\* (current_time = int(time.time())), which comes before its connection is opened
RetrieveBeginStep(t, q) ==
    /\ retrievals[t].pc = "idle"
    /\ requested' = requested + 1
    /\ LET r == [IdleRetrieval EXCEPT !.user_id = q.user_id, !.query = q.query,
                                      !.scope = q.scope, !.state_filter = q.state_filter,
                                      !.limit = q.limit]
       IN  retrievals' = [retrievals EXCEPT ![t] =
               IF q.user_id = "" THEN Answer(r, "error", "user_id_required", <<>>)
               ELSE IF q.state_filter \notin allowed_states
                    THEN Answer(r, "error", "invalid_state_filter", <<>>)
                    ELSE [r EXCEPT !.pc = "rate_limit",
                                   !.actual_limit = actual_limit(q.limit),
                                   !.current_time = now]]
    /\ UNCHANGED <<now, rate_limits, rate_obs>>
    /\ UNCHANGED evaluation_vars

\* a thread calls PolicyEngine.retrieve_memory directly
RetrieveBeginOf(t, q) ==
    /\ RetrieveBeginStep(t, q)
    /\ UNCHANGED tool_vars

RetrieveBegin(Q, T, bound) ==
    /\ requested < bound
    /\ \E t \in T : \E q \in Q : RetrieveBeginOf(t, q)

\* is_allowed = self.db.check_rate_limit(...): the transaction of check_rate_limit
\* with the time it read (a local of check_rate_limit, gone when it returns);
\* if not is_allowed: return error
RateLimitStep(t, r, fault) ==
    /\ retrievals[t].pc = "rate_limit"
    /\ rate_limits' = r.rate_limits
    /\ rate_obs' = Observe(retrievals[t].user_id, retrievals[t].current_time)
    /\ LET c == [retrievals[t] EXCEPT !.is_allowed = r.ret, !.fault = fault,
                                      !.current_time = 0]
       IN  retrievals' = [retrievals EXCEPT ![t] =
               IF r.ret THEN [c EXCEPT !.pc = "query"]
               ELSE Answer(c, "error", "rate_limit_exceeded", <<>>)]
    /\ UNCHANGED <<now, requested>>
    /\ UNCHANGED evaluation_vars
    /\ UNCHANGED tool_vars

RateLimitOf(t) ==
    /\ retrievals[t].pc = "rate_limit"
    /\ \E r \in {check_rate_limit(rate_limits, retrievals[t].current_time,
                                   retrievals[t].user_id,
                                   "retrieve_memory", max_requests, window_seconds)} :
           RateLimitStep(t, r, FALSE)

\* the rate limiter's storage fails
RateLimitFaultOf(t) ==
    /\ retrievals[t].pc = "rate_limit"
    /\ \E r \in {check_rate_limit_failed(rate_limits)} : RateLimitStep(t, r, TRUE)

\* results = self.db.retrieve_memories(..., limit=actual_limit); return success,
\* given what the database call returned
QueryStep(t, results, fault) ==
    /\ retrievals[t].pc = "query"
    /\ retrievals' = [retrievals EXCEPT ![t] =
           [Answer(retrievals[t], "success", "none", results)
               EXCEPT !.at = [memories |-> memories,
                              memory_versions |-> memory_versions],
                      !.query_fault = fault]]
    /\ UNCHANGED <<now, rate_limits, requested, rate_obs>>
    /\ UNCHANGED evaluation_vars
    /\ UNCHANGED tool_vars

QueryOf(t) ==
    /\ retrievals[t].pc = "query"
    /\ \E results \in retrieve_memories(memories, memory_versions,
                                        retrievals[t].user_id, retrievals[t].query,
                                        scope_or_all(retrievals[t].scope),
                                        retrievals[t].state_filter,
                                        retrievals[t].actual_limit) :
           QueryStep(t, results, FALSE)

\* the connection or the SELECT raises inside retrieve_memories:
\* except Exception: return []
QueryFaultOf(t) ==
    /\ retrievals[t].pc = "query"
    /\ QueryStep(t, <<>>, TRUE)

\* the caller takes the answer
RetrieveReturnOf(t) ==
    /\ retrievals[t].pc = "done"
    /\ retrievals' = [retrievals EXCEPT ![t] = IdleRetrieval]
    /\ UNCHANGED <<now, rate_limits, requested, rate_obs>>
    /\ UNCHANGED evaluation_vars
    /\ UNCHANGED tool_vars

RateLimit == \E t \in Threads : RateLimitOf(t)

RateLimitFault == \E t \in Threads : RateLimitFaultOf(t)

Query == \E t \in Threads : QueryOf(t)

QueryFault == \E t \in Threads : QueryFaultOf(t)

RetrieveReturn == \E t \in Threads : RetrieveReturnOf(t)

\* time.time() advances
Tick(step, until) ==
    /\ now + step <= until
    /\ now' = now + step
    /\ UNCHANGED <<rate_limits, retrievals, requested, rate_obs>>
    /\ UNCHANGED evaluation_vars
    /\ UNCHANGED tool_vars

\* ---------------------------------------------------------------- overlap test

\* the words the compared contents are made of
Pool == <<"a", "b", "c", "d", "e", "f", "g", "h", "i", "j">>

\* str.upper() of one character, for the contents written in capitals
UpperChar(ch) ==
    CASE ch = "a" -> "A"
      [] ch = "b" -> "B"
      [] ch = "c" -> "C"
      [] OTHER -> ch

RECURSIVE Joined(_, _)
\* sep.join(...) of the words of Pool chosen by I
Joined(I, sep) ==
    IF I = {} THEN <<>>
    ELSE LET i == Min(I)
             rest == I \ {i}
         IN  <<Pool[i]>> \o (IF rest = {} THEN <<>> ELSE sep \o Joined(rest, sep))

\* a content made of the words chosen by I: either in lower case with single
\* blanks, or in capitals with blanks around and doubled between the words and
\* its first word once more at the end
Text(I, style) ==
    IF style = "plain" THEN Joined(I, <<" ">>)
    ELSE LET body == Joined(I, <<" ", " ">>)
         IN  <<" ">> \o [k \in 1..Len(body) |-> UpperChar(body[k])] \o <<" ">>
                 \o (IF I = {} THEN <<>> ELSE <<Pool[Min(I)], " ">>)

Styles == {"plain", "messy"}

\* the contents to compare: at most MaxProbeWords of the first ProbePool words
ProbeInputs ==
    {[words |-> I, style |-> st] :
        I \in {J \in SUBSET (1..ProbePool) : Cardinality(J) <= MaxProbeWords},
        st \in Styles}

\* no pair of contents is under comparison
IdleProbe ==
    [pc |-> "idle", new |-> [words |-> {}, style |-> "plain"],
     existing |-> [words |-> {}, style |-> "plain"],
     new_existing |-> FALSE, existing_new |-> FALSE,
     new_new |-> FALSE, existing_existing |-> FALSE]

\* _find_conflict(new, [existing]) is not None, and the same with the two
\* contents exchanged and with each content against itself
Overlap ==
    /\ probe.pc = "ready"
    /\ \E new \in {Text(probe.new.words, probe.new.style)},
          existing \in {Text(probe.existing.words, probe.existing.style)} :
           probe' = [probe EXCEPT !.pc = "done",
                                  !.new_existing = Collides(new, existing),
                                  !.existing_new = Collides(existing, new),
                                  !.new_new = Collides(new, new),
                                  !.existing_existing = Collides(existing, existing)]
    /\ UNCHANGED evaluation_vars
    /\ UNCHANGED retrieval_vars
    /\ UNCHANGED <<admin, edits, edited, settings_overrides, settings_obs, tools, tool_calls, lookups, overtaken, history, legacy_db, stores>>

\* ---------------------------------------------------------------- set_memory_state

\* the lifecycle states a caller of set_memory_state passes
States == {"active", "superseded", "archived"}

\* no direct set_memory_state call has been made
IdleAdmin == [n |-> 0, memory_id |-> 0, new_state |-> "", ret |-> FALSE, memories |-> <<>>]

\* a caller outside the policy engine runs MemoryDB.set_memory_state(memory_id,
\* new_state), given what the database call did and returned
SetStateStep(memory_id, new_state, r) ==
    /\ admin.n < MaxSetStates
    /\ memories' = r.memories
    /\ admin' = [n |-> admin.n + 1, memory_id |-> memory_id, new_state |-> new_state,
                 ret |-> r.ret, memories |-> r.memories]
    /\ UNCHANGED <<memory_versions, calls, begun, lineage_obs, seq_obs>>
    /\ UNCHANGED retrieval_vars
    /\ UNCHANGED <<probe, edits, edited, settings_overrides, settings_obs, tools, tool_calls, lookups, overtaken, history, legacy_db, stores>>

SetStateOf(memory_id, new_state) ==
    \E r \in {set_memory_state(memories, memory_id, new_state)} :
        SetStateStep(memory_id, new_state, r)

\* the connection, the UPDATE or the commit raises inside set_memory_state:
\* except Exception: return False, the row as it was
SetStateFaultOf(memory_id, new_state) ==
    /\ admin.n < MaxSetStates
    /\ SetStateStep(memory_id, new_state, [ret |-> FALSE, memories |-> memories])

\* any id from 0 to one past the last row, any state
SetState ==
    \E memory_id \in 0..(Len(memories) + 1), new_state \in States :
        SetStateOf(memory_id, new_state)

SetStateFault ==
    \E memory_id \in 0..(Len(memories) + 1), new_state \in States :
        SetStateFaultOf(memory_id, new_state)

\* ---------------------------------------------------------------- edit_memory

\* SELECT MAX(version) FROM memory_versions WHERE memory_id = ?; 0 when there is none
max_version(versions, memory_id) ==
    LET mine == {v.version : v \in {u \in versions : u.memory_id = memory_id}}
    IN  IF mine = {} THEN 0 ELSE Max(mine)

\* the table has no UNIQUE(memory_id, version)
unique_version_missing(versions, memory_id, version) == FALSE

\* UNIQUE(memory_id, version) of memory_versions: is the pair taken?
unique_version_violated(versions, memory_id, version) ==
    \E v \in versions : v.memory_id = memory_id /\ v.version = version

\* a thread outside edit_memory
IdleEdit ==
    [pc |-> "idle", memory_id |-> 0, new_content |-> <<>>, session_id |-> "",
     new_version |-> 0, ret |-> FALSE]

\* the legacy database after MemoryDB._init_db on an empty file
EmptyLegacy == [memories |-> <<>>, memory_versions |-> {}]

\* the arguments of one store_memory call of the legacy MemoryDB
LegacyArgs(session_id, content, memory_date, subject, importance, user_id) ==
    [session_id |-> session_id, content |-> content, memory_date |-> memory_date,
     subject |-> subject, importance |-> importance, user_id |-> user_id,
     access_mode |-> "private"]

\* SELECT 1 FROM memory_versions mv JOIN memories m ... WHERE m.session_id = ?
\* AND m.user_id = ? AND mv.content = ?: does a version of a memory of this
\* session and user have the content?
legacy_duplicate(db, a) ==
    \E v \in db.memory_versions :
        /\ db.memories[v.memory_id].session_id = a.session_id
        /\ db.memories[v.memory_id].user_id = a.user_id
        /\ v.content = a.content

\* INSERT INTO memories; memory_id = cursor.lastrowid; INSERT INTO
\* memory_versions (memory_id, content, 1); commit: the new row, its version 1
\* and the new id
legacy_insert(db, a) ==
    LET memory_id == Len(db.memories) + 1
    IN  [ret |-> memory_id,
         db |-> [memories |-> Append(db.memories,
                     [id |-> memory_id, session_id |-> a.session_id,
                      user_id |-> a.user_id, memory_date |-> a.memory_date,
                      subject |-> a.subject, importance |-> a.importance,
                      access_mode |-> a.access_mode]),
                 memory_versions |-> db.memory_versions \cup
                     {[memory_id |-> memory_id, content |-> a.content,
                       version |-> 1]}]]

\* MemoryDB.store_memory of assistant/memory/db.py run without another caller
\* in between: None (0) for a duplicate, else the insert
legacy_store_memory(db, a) ==
    IF legacy_duplicate(db, a) THEN [ret |-> 0, db |-> db] ELSE legacy_insert(db, a)

\* a thread outside the legacy store_memory
IdleStore ==
    [pc |-> "idle",
     args |-> LegacyArgs("", <<>>, <<>>, "", 0, ""),
     ret |-> 0]

\* store_memory up to its INSERT: the duplicate check, a SELECT outside the
\* transaction of the INSERTs; return None for a duplicate
LegacyStoreBeginOf(t, a) ==
    /\ stores[t].pc = "idle"
    /\ stores' = [stores EXCEPT ![t] =
           IF legacy_duplicate(legacy_db, a)
           THEN [pc |-> "done", args |-> a, ret |-> 0]
           ELSE [pc |-> "insert", args |-> a, ret |-> 0]]
    /\ UNCHANGED evaluation_vars
    /\ UNCHANGED retrieval_vars
    /\ UNCHANGED <<probe, admin, edits, edited, settings_overrides, settings_obs,
                   tools, tool_calls, lookups, overtaken, history, legacy_db>>

\* the connection or the SELECT raises: except Exception: return None
LegacyStoreBeginFaultOf(t, a) ==
    /\ stores[t].pc = "idle"
    /\ stores' = [stores EXCEPT ![t] = [pc |-> "done", args |-> a, ret |-> 0]]
    /\ UNCHANGED evaluation_vars
    /\ UNCHANGED retrieval_vars
    /\ UNCHANGED <<probe, admin, edits, edited, settings_overrides, settings_obs,
                   tools, tool_calls, lookups, overtaken, history, legacy_db>>

\* the two INSERTs and the commit of store_memory, given what they did
LegacyStoreInsertStep(t, r) ==
    /\ stores[t].pc = "insert"
    /\ legacy_db' = r.db
    /\ stores' = [stores EXCEPT ![t].pc = "done", ![t].ret = r.ret]
    /\ UNCHANGED evaluation_vars
    /\ UNCHANGED retrieval_vars
    /\ UNCHANGED <<probe, admin, edits, edited, settings_overrides, settings_obs,
                   tools, tool_calls, lookups, overtaken, history>>

LegacyStoreInsertOf(t) ==
    /\ stores[t].pc = "insert"
    /\ \E r \in {legacy_insert(legacy_db, stores[t].args)} : LegacyStoreInsertStep(t, r)

\* an INSERT or the commit raises: the transaction is rolled back,
\* except Exception: return None
LegacyStoreInsertFaultOf(t) ==
    /\ stores[t].pc = "insert"
    /\ LegacyStoreInsertStep(t, [ret |-> 0, db |-> legacy_db])

\* the result reaches the caller of thread t
LegacyStoreReturnOf(t) ==
    /\ stores[t].pc = "done"
    /\ stores' = [stores EXCEPT ![t] = IdleStore]
    /\ UNCHANGED evaluation_vars
    /\ UNCHANGED retrieval_vars
    /\ UNCHANGED <<probe, admin, edits, edited, settings_overrides, settings_obs,
                   tools, tool_calls, lookups, overtaken, history, legacy_db>>

LegacyStoreInsert == \E t \in Threads : LegacyStoreInsertOf(t)

LegacyStoreInsertFault == \E t \in Threads : LegacyStoreInsertFaultOf(t)

LegacyStoreReturn == \E t \in Threads : LegacyStoreReturnOf(t)

\* edit_memory enters, given the record its first statement leaves
EditBeginStep(t, e) ==
    /\ edits[t].pc = "idle"
    /\ edited < MaxEdits
    /\ edited' = edited + 1
    /\ edits' = [edits EXCEPT ![t] = e]
    /\ UNCHANGED evaluation_vars
    /\ UNCHANGED retrieval_vars
    /\ UNCHANGED <<probe, admin, settings_overrides, settings_obs, tools, tool_calls, lookups, overtaken, history, legacy_db, stores>>

\* edit_memory up to its second SELECT: SELECT session_id FROM memories WHERE
\* id = ?; the row must exist and, when a session is given, belong to it
EditBeginOf(t, memory_id, new_content, session_id) ==
    LET e == [IdleEdit EXCEPT !.memory_id = memory_id, !.new_content = new_content,
                              !.session_id = session_id]
    IN  EditBeginStep(t,
            IF memory_id \notin 1..Len(legacy_db.memories)
            THEN [e EXCEPT !.pc = "done", !.ret = FALSE]
            ELSE IF session_id # "" /\ legacy_db.memories[memory_id].session_id # session_id
            THEN [e EXCEPT !.pc = "done", !.ret = FALSE]
            ELSE [e EXCEPT !.pc = "max"])

\* the connection or the first SELECT raises: except Exception: return False
EditBeginFaultOf(t, memory_id, new_content, session_id) ==
    /\ edits[t].pc = "idle"
    /\ EditBeginStep(t, [IdleEdit EXCEPT !.memory_id = memory_id,
                                         !.new_content = new_content,
                                         !.session_id = session_id,
                                         !.pc = "done", !.ret = FALSE])

\* SELECT MAX(version) FROM memory_versions WHERE memory_id = ?;
\* new_version = current_version + 1
EditMaxOf(t) ==
    /\ edits[t].pc = "max"
    /\ edits' = [edits EXCEPT ![t].pc = "insert",
                              ![t].new_version =
                                  max_version(legacy_db.memory_versions,
                                              edits[t].memory_id) + 1]
    /\ UNCHANGED edited
    /\ UNCHANGED evaluation_vars
    /\ UNCHANGED retrieval_vars
    /\ UNCHANGED <<probe, admin, settings_overrides, settings_obs, tools, tool_calls, lookups, overtaken, history, legacy_db, stores>>

\* INSERT INTO memory_versions (memory_id, content, version); commit; return True,
\* or the IntegrityError of the UNIQUE constraint: return False
EditInsertOf(t) ==
    /\ edits[t].pc = "insert"
    /\ IF unique_version_violated(legacy_db.memory_versions, edits[t].memory_id,
                                  edits[t].new_version)
       THEN /\ edits' = [edits EXCEPT ![t].pc = "done", ![t].ret = FALSE]
            /\ UNCHANGED legacy_db
       ELSE /\ edits' = [edits EXCEPT ![t].pc = "done", ![t].ret = TRUE]
            /\ legacy_db' = [legacy_db EXCEPT !.memory_versions = @ \cup
                   {[memory_id |-> edits[t].memory_id, content |-> edits[t].new_content,
                     version |-> edits[t].new_version]}]
    /\ UNCHANGED edited
    /\ UNCHANGED evaluation_vars
    /\ UNCHANGED retrieval_vars
    /\ UNCHANGED <<probe, admin, settings_overrides, settings_obs, tools, tool_calls, lookups, overtaken, history, stores>>

\* the second SELECT, the INSERT or the commit raises: nothing is written,
\* except Exception: return False
EditFaultOf(t) ==
    /\ edits[t].pc \in {"max", "insert"}
    /\ edits' = [edits EXCEPT ![t].pc = "done", ![t].ret = FALSE]
    /\ UNCHANGED edited
    /\ UNCHANGED evaluation_vars
    /\ UNCHANGED retrieval_vars
    /\ UNCHANGED <<probe, admin, settings_overrides, settings_obs, tools, tool_calls, lookups, overtaken, history, legacy_db, stores>>

\* the result reaches the caller of thread t
EditReturnOf(t) ==
    /\ edits[t].pc = "done"
    /\ edits' = [edits EXCEPT ![t] = IdleEdit]
    /\ UNCHANGED edited
    /\ UNCHANGED evaluation_vars
    /\ UNCHANGED retrieval_vars
    /\ UNCHANGED <<probe, admin, settings_overrides, settings_obs, tools, tool_calls, lookups, overtaken, history, legacy_db, stores>>

EditMax == \E t \in Threads : EditMaxOf(t)

EditFault == \E t \in Threads : EditFaultOf(t)

EditInsert == \E t \in Threads : EditInsertOf(t)

EditReturn == \E t \in Threads : EditReturnOf(t)

\* ---------------------------------------------------------------- settings overrides

\* the Python values passed as an override: str, int, float (in tenths), bool, None
PyStr(text) == [type |-> "str", text |-> text]

PyInt(n) == [type |-> "int", n |-> n]

PyFloat(tenths) == [type |-> "float", tenths |-> tenths]

PyBool(b) == [type |-> "bool", b |-> b]

PyNone == [type |-> "NoneType"]

\* str(value), for the values above (floats with one decimal, not negative)
str(value) ==
    CASE value.type = "str" -> value.text
      [] value.type = "int" -> ToString(value.n)
      [] value.type = "float" ->
             ToString(value.tenths \div 10) \o "." \o ToString(value.tenths % 10)
      [] value.type = "bool" -> IF value.b THEN "True" ELSE "False"
      [] value.type = "NoneType" -> "None"

\* a plain INSERT: the primary key refuses a second row of the key
set_setting_override_insert_only(overrides, key, value) ==
    IF \E r \in overrides : r.key = key
    THEN overrides
    ELSE overrides \cup {[key |-> key, value |-> str(value)]}

\* MemoryDB.set_setting_override: INSERT ... ON CONFLICT(key) DO UPDATE SET
\* value = excluded.value, with str(value) as the value
set_setting_override(overrides, key, value) ==
    {r \in overrides : r.key # key} \cup {[key |-> key, value |-> str(value)]}

\* MemoryDB.get_all_overrides: {row[0]: row[1] for row in rows}
get_all_overrides(overrides) ==
    [key \in {r.key : r \in overrides} |->
        (CHOOSE r \in overrides : r.key = key).value]

\* a caller runs set_setting_override(key, value), given the table the call left
SetOverrideStep(key, value, overrides) ==
    /\ settings_obs.n < MaxOverrides
    /\ settings_overrides' = overrides
    /\ settings_obs' = [n |-> settings_obs.n + 1,
                        last |-> {w \in settings_obs.last : w.key # key}
                                     \cup {[key |-> key, value |-> value]}]
    /\ UNCHANGED evaluation_vars
    /\ UNCHANGED retrieval_vars
    /\ UNCHANGED <<probe, admin, edits, edited, tools, tool_calls, lookups, overtaken, history, legacy_db, stores>>

SetOverrideOf(key, value) ==
    SetOverrideStep(key, value, set_setting_override(settings_overrides, key, value))

\* the connection, the INSERT or the commit raises inside set_setting_override:
\* except Exception: return False, nothing written
SetOverrideFaultOf(key, value) ==
    /\ settings_obs.n < MaxOverrides
    /\ SetOverrideStep(key, value, settings_overrides)

\* the overrides as the tool reads them when get_all_overrides raises:
\* except Exception: return {}
get_all_overrides_failed == {}

\* ---------------------------------------------------------------- memory tool facade

Digits == <<"0", "1", "2", "3", "4", "5", "6", "7", "8", "9">>

IsDigit(ch) == \E i \in 1..10 : Digits[i] = ch

\* int() of one digit
DigitValue(ch) == (CHOOSE i \in 1..10 : Digits[i] = ch) - 1

\* int() of a string of digits, a leading blank skipped
RECURSIVE Number(_)
Number(s) ==
    IF s = <<>> THEN 0
    ELSE IF s[1] = " " THEN Number(Tail(s))
    ELSE Number(SubSeq(s, 1, Len(s) - 1)) * 10 + DigitValue(s[Len(s)])

\* the pattern of %Y: \d\d\d\d
MatchesYear(s) == Len(s) = 4 /\ \A i \in 1..4 : IsDigit(s[i])

\* the pattern of %m: 1[0-2]|0[1-9]|[1-9]
MatchesMonth(s) ==
    \/ Len(s) = 2 /\ s[1] = "1" /\ s[2] \in {"0", "1", "2"}
    \/ Len(s) = 2 /\ s[1] = "0" /\ IsDigit(s[2]) /\ s[2] # "0"
    \/ Len(s) = 1 /\ IsDigit(s[1]) /\ s[1] # "0"

\* the pattern of %d: 3[0-1]|[1-2]\d|0[1-9]|[1-9]| [1-9]
MatchesDay(s) ==
    \/ Len(s) = 2 /\ s[1] = "3" /\ s[2] \in {"0", "1"}
    \/ Len(s) = 2 /\ s[1] \in {"1", "2"} /\ IsDigit(s[2])
    \/ Len(s) = 2 /\ s[1] \in {"0", " "} /\ IsDigit(s[2]) /\ s[2] # "0"
    \/ Len(s) = 1 /\ IsDigit(s[1]) /\ s[1] # "0"

\* calendar.isleap
IsLeap(year) == year % 4 = 0 /\ (year % 100 # 0 \/ year % 400 = 0)

\* the days of a month of the proleptic Gregorian calendar
DaysInMonth(year, month) ==
    IF month = 2 THEN (IF IsLeap(year) THEN 29 ELSE 28)
    ELSE IF month \in {4, 6, 9, 11} THEN 30 ELSE 31

\* MemoryTool._validate_date: datetime.datetime.strptime(date_text, "%Y-%m-%d")
\* raises no ValueError. The text must match year-month-day as a whole, and
\* the numbers must be a date of the years 1..9999.
validate_date(date_text) ==
    \E j \in {7, 8} :
        /\ Len(date_text) > j
        /\ date_text[5] = "-"
        /\ date_text[j] = "-"
        /\ MatchesYear(SubSeq(date_text, 1, 4))
        /\ MatchesMonth(SubSeq(date_text, 6, j - 1))
        /\ MatchesDay(SubSeq(date_text, j + 1, Len(date_text)))
        /\ Number(SubSeq(date_text, 1, 4)) >= 1
        /\ Number(SubSeq(date_text, j + 1, Len(date_text))) <=
               DaysInMonth(Number(SubSeq(date_text, 1, 4)),
                           Number(SubSeq(date_text, 6, j - 1)))

\* isinstance(importance, int): bool is a subclass of int
is_int(value) == value.type \in {"int", "bool"}

\* the number an int or a bool compares as
int_value(value) == IF value.type = "bool" THEN (IF value.b THEN 1 ELSE 0) ELSE value.n

LowerLetters ==
    <<"a", "b", "c", "d", "e", "f", "g", "h", "i", "j", "k", "l", "m",
      "n", "o", "p", "q", "r", "s", "t", "u", "v", "w", "x", "y", "z">>

UpperLetters ==
    <<"A", "B", "C", "D", "E", "F", "G", "H", "I", "J", "K", "L", "M",
      "N", "O", "P", "Q", "R", "S", "T", "U", "V", "W", "X", "Y", "Z">>

IsLowerLetter(ch) == \E i \in 1..26 : LowerLetters[i] = ch

IsUpperLetter(ch) == \E i \in 1..26 : UpperLetters[i] = ch

\* str.upper() and str.lower() of one character
to_upper(ch) ==
    IF IsLowerLetter(ch) THEN UpperLetters[CHOOSE i \in 1..26 : LowerLetters[i] = ch] ELSE ch

to_lower(ch) ==
    IF IsUpperLetter(ch) THEN LowerLetters[CHOOSE i \in 1..26 : UpperLetters[i] = ch] ELSE ch

\* str.title(): a letter after a letter in lower case, any other letter in upper case
title(s) ==
    [i \in 1..Len(s) |->
        IF i > 1 /\ (IsLowerLetter(s[i - 1]) \/ IsUpperLetter(s[i - 1]))
        THEN to_lower(s[i]) ELSE to_upper(s[i])]

General == <<"G", "e", "n", "e", "r", "a", "l">>

\* MemoryTool._normalize_subject: if not subject: return "General";
\* return subject.strip().title()
normalize_subject(subject) ==
    IF subject = <<>> THEN General ELSE title(Strip(subject))

\* subjects and allow-list entries
S_Work == <<"W", "o", "r", "k">>

S_work_blanks == <<" ", " ", "w", "o", "r", "k", " ", " ">>

S_Hobbies == <<"H", "o", "b", "b", "i", "e", "s">>

S_empty == <<>>

S_blanks == <<" ", " ">>

S_star == <<"*">>

\* float(text) for the texts the overrides hold: the value in tenths, or ValueError
float(text) ==
    CASE text = "4.0" -> [ok |-> TRUE, tenths |-> 40]
      [] text = "4" -> [ok |-> TRUE, tenths |-> 40]
      [] text = "3.0" -> [ok |-> TRUE, tenths |-> 30]
      [] text = "3.5" -> [ok |-> TRUE, tenths |-> 35]
      [] text = "0.6" -> [ok |-> TRUE, tenths |-> 6]
      [] OTHER -> [ok |-> FALSE, tenths |-> 0]

\* json.loads(text) for the texts the overrides hold: a list of strings and
\* numbers, a value that is no list (a string, an int, a float), or
\* JSONDecodeError
json_loads(text) ==
    CASE text = "[\"Work\"]" -> [type |-> "list", items |-> <<PyStr(S_Work)>>]
      [] text = "[\"Work\", \"Health\"]" ->
             [type |-> "list",
              items |-> <<PyStr(S_Work), PyStr(<<"H", "e", "a", "l", "t", "h">>)>>]
      [] text = "[\"  work  \"]" -> [type |-> "list", items |-> <<PyStr(S_work_blanks)>>]
      [] text = "[\"General\"]" -> [type |-> "list", items |-> <<PyStr(General)>>]
      [] text = "[\"  \"]" -> [type |-> "list", items |-> <<PyStr(S_blanks)>>]
      [] text = "[\"*\"]" -> [type |-> "list", items |-> <<PyStr(S_star)>>]
      [] text = "[]" -> [type |-> "list", items |-> <<>>]
      [] text = "[1]" -> [type |-> "list", items |-> <<PyInt(1)>>]
      [] text = "\"Work\"" -> [type |-> "str", items |-> <<>>]
      [] text = "4" -> [type |-> "int", items |-> <<>>]
      [] text \in {"4.0", "3.5", "3.0", "0.6"} -> [type |-> "float", items |-> <<>>]
      [] OTHER -> [type |-> "JSONDecodeError", items |-> <<>>]

THRESHOLD == "memory_extraction_threshold"

ALLOWED == "allowed_subjects"

\* settings.load_settings(db) without a defaults file: the overrides, the
\* threshold coerced to a float, an override that does not coerce left out
load_settings(overrides) ==
    LET got == get_all_overrides(overrides)
    IN  [key \in {k \in DOMAIN got : k = THRESHOLD => float(got[k]).ok} |->
            IF key = THRESHOLD THEN PyFloat(float(got[key]).tenths) ELSE PyStr(got[key])]

\* the default of memory_extraction_threshold at the facade, in tenths
DefaultThreshold == 30

\* threshold = float(settings.get("memory_extraction_threshold", 3.0)), in tenths
threshold_of(settings) ==
    IF THRESHOLD \in DOMAIN settings THEN settings[THRESHOLD].tenths ELSE DefaultThreshold

\* raw_allowed_subjects after json.loads: the items of the list, or <<"*">> for
\* a missing or malformed setting
raw_allowed_subjects(settings) ==
    IF ALLOWED \notin DOMAIN settings THEN <<PyStr(S_star)>>
    ELSE IF json_loads(settings[ALLOWED].text).type = "list"
    THEN json_loads(settings[ALLOWED].text).items
    ELSE <<PyStr(S_star)>>

\* importance < threshold
below_threshold(importance, threshold) == 10 * int_value(importance) < threshold

\* the result of a store_memory call that does not reach the policy engine
ToolResult(status, reason) == [status |-> status, reason |-> reason, stored |-> FALSE]

\* MemoryTool.store_memory up to the call of the policy engine: the result it
\* returns itself, "raised" for an exception it lets through, or "delegate"
\* with the normalized subject
store_memory(a, overrides) ==
    IF ~validate_date(a.memory_date) THEN ToolResult("error", "Invalid date format")
    ELSE IF ~is_int(a.importance) THEN ToolResult("error", "Importance must be an integer")
    ELSE LET settings == load_settings(overrides)
             raw == raw_allowed_subjects(settings)
         IN  IF \E i \in 1..Len(raw) : raw[i].type # "str"
             THEN ToolResult("raised", "AttributeError")
             ELSE LET allowed_subjects == {normalize_subject(raw[i].text) : i \in 1..Len(raw)}
                      norm_subject == normalize_subject(a.subject)
                  IN  IF below_threshold(a.importance, threshold_of(settings))
                      THEN ToolResult("rejected", "importance_below_threshold")
                      ELSE IF S_star \notin allowed_subjects /\ norm_subject \notin allowed_subjects
                      THEN ToolResult("rejected", "subject_not_allowed")
                      ELSE [status |-> "delegate", reason |-> norm_subject, stored |-> FALSE]

\* a thread outside store_memory
IdleTool ==
    [pc |-> "idle",
     args |-> [content |-> <<>>, memory_date |-> <<>>, subject |-> <<>>,
               importance |-> PyNone, session_id |-> "", user_id |-> ""],
     result |-> ToolResult("none", "none")]

RECURSIVE Name(_)
\* the string made of the characters of a subject
Name(subject) == IF subject = <<>> THEN "" ELSE subject[1] \o Name(Tail(subject))

\* the arguments of one store_memory call
ToolArgs(content, memory_date, subject, importance) ==
    [content |-> content, memory_date |-> memory_date, subject |-> subject,
     importance |-> importance, session_id |-> "s1", user_id |-> "u1"]

\* thread t runs store_memory(a) up to its return or to its call of
\* self.policy.evaluate_and_store(..., subject=norm_subject,
\* confidence_score=0.6, source="inferred")
StoreMemoryStep(t, a, overrides) ==
    /\ tools[t].pc = "idle"
    /\ calls[t].pc = "idle"
    /\ tool_calls < MaxToolCalls
    /\ tool_calls' = tool_calls + 1
    /\ \E r \in {store_memory(a, overrides)} :
           IF r.status = "delegate"
           THEN /\ tools' = [tools EXCEPT ![t] = [pc |-> "policy", args |-> a, result |-> r]]
                /\ calls' = [calls EXCEPT ![t] =
                       NewCall(Proposal(a.session_id, a.user_id, Name(r.reason), a.content,
                                        6, "inferred"), t)]
                /\ begun' = begun + 1
           ELSE /\ tools' = [tools EXCEPT ![t] = [pc |-> "done", args |-> a, result |-> r]]
                /\ UNCHANGED <<calls, begun>>
    /\ UNCHANGED <<memories, memory_versions, lineage_obs, seq_obs>>
    /\ UNCHANGED retrieval_vars
    /\ UNCHANGED <<probe, admin, edits, edited, settings_overrides, settings_obs, lookups, overtaken, history, legacy_db, stores>>

StoreMemoryOf(t, a) == StoreMemoryStep(t, a, settings_overrides)

\* the same call when get_all_overrides raises inside load_settings
StoreMemoryFaultOf(t, a) ==
    /\ tools[t].pc = "idle"
    /\ StoreMemoryStep(t, a, get_all_overrides_failed)

\* the result reaches the caller of thread t: the facade's own result, or
\* `return result` with what evaluate_and_store returned
StoreMemoryReturnOf(t) ==
    /\ \/ tools[t].pc = "done" /\ UNCHANGED calls
       \/ /\ tools[t].pc = "policy"
          /\ calls[t].pc = "done"
          /\ calls' = [calls EXCEPT ![t] = IdleCall]
    /\ tools' = [tools EXCEPT ![t] = IdleTool]
    /\ UNCHANGED <<memories, memory_versions, begun, lineage_obs, seq_obs>>
    /\ UNCHANGED retrieval_vars
    /\ UNCHANGED <<probe, admin, edits, edited, settings_overrides, settings_obs, tool_calls, lookups, overtaken, history, legacy_db, stores>>

StoreMemoryReturn == \E t \in Threads : StoreMemoryReturnOf(t)

\* ---------------------------------------------------------------- chat history

\* the static setting of the history length
MAX_CHAT_HISTORY == 20

\* the length of the lists prune is called with directly, and the reserves
MaxMessages == 23

MaxReserve == 22

\* the chat calls of the session, and those among them in which the file or the
\* model fails
MaxChats == 12

MaxChatFaults == 1

\* Python's messages[start:] for an integer start: a negative start counts from
\* the end, and a start outside the list is clamped
SliceFrom(messages, start) ==
    LET n == Len(messages)
        from == IF start < 0 THEN Max({n + start, 0}) ELSE Min({start, n})
    IN  SubSeq(messages, from + 1, n)

\* MemoryManager.prune(messages, reserve)
prune(messages, reserve) ==
    LET max_allowed == Max({0, MAX_CHAT_HISTORY - reserve})
    IN  IF Len(messages) > max_allowed
        THEN SliceFrom(messages, 0 - max_allowed)
        ELSE messages

\* MemoryManager.load on a file that is read: the saved list without the
\* messages of another role than user and assistant
load(file) ==
    LET kept(m) == m.role \in {"user", "assistant"}
    IN  SelectSeq(file, kept)

\* MemoryManager.load when the file cannot be read or does not parse: return []
load_failed == <<>>

\* MemoryManager.save writes the messages of the roles user and assistant
safe_messages(messages) ==
    LET kept(m) == m.role \in {"user", "assistant"}
    IN  SelectSeq(messages, kept)

\* no history file, no chat under way, prune not yet called
IdleHistory ==
    [file |-> <<>>, pc |-> "idle", local |-> <<>>, said |-> 0, faults |-> 0,
     pruned |-> FALSE, input |-> <<>>, reserve |-> 0, result |-> <<>>]

\* chat under the session lock up to the call of the model, given what load
\* returned and the file it left: history = prune(load(session_id), reserve=1);
\* history.append({"role": "user", "content": message})
ChatBeginStep(message, loaded, file, faults) ==
    /\ history.pc = "idle"
    /\ history.said < MaxChats
    /\ \E result \in {prune(loaded, 1)} :
           history' = [history EXCEPT
               !.pc = "model", !.said = history.said + 1, !.file = file,
               !.faults = history.faults + faults,
               !.local = Append(result, [role |-> "user", content |-> message]),
               !.pruned = TRUE, !.input = loaded, !.reserve = 1, !.result = result]
    /\ UNCHANGED evaluation_vars
    /\ UNCHANGED retrieval_vars
    /\ UNCHANGED <<probe, admin, edits, edited, settings_overrides, settings_obs,
                   tools, tool_calls, lookups, overtaken, legacy_db, stores>>

ChatBeginOf(message) ==
    /\ history.pc = "idle"
    /\ ChatBeginStep(message, load(history.file), history.file, 0)

\* the same when load fails: the file cannot be read (except Exception), or it
\* does not parse and is moved aside (except json.JSONDecodeError)
ChatBeginFaultOf(message, moved) ==
    /\ history.pc = "idle"
    /\ history.faults < MaxChatFaults
    /\ ChatBeginStep(message, load_failed, IF moved THEN <<>> ELSE history.file, 1)

\* the model has answered: history.append({"role": "assistant", ...});
\* history = prune(history); save(session_id, history), which writes the file
\* or, when the write raises, prints the error and leaves the file
ChatReplyStep(reply, saved, faults) ==
    /\ history.pc = "model"
    /\ LET input == Append(history.local, [role |-> "assistant", content |-> reply])
       IN  \E result \in {prune(input, 0)} :
               history' = [history EXCEPT
                   !.pc = "idle", !.local = <<>>,
                   !.faults = history.faults + faults,
                   !.file = IF saved THEN safe_messages(result) ELSE history.file,
                   !.pruned = TRUE, !.input = input, !.reserve = 0, !.result = result]
    /\ UNCHANGED evaluation_vars
    /\ UNCHANGED retrieval_vars
    /\ UNCHANGED <<probe, admin, edits, edited, settings_overrides, settings_obs,
                   tools, tool_calls, lookups, overtaken, legacy_db, stores>>

ChatReplyOf(reply) ==
    /\ history.pc = "model"
    /\ ChatReplyStep(reply, TRUE, 0)

ChatSaveFaultOf(reply) ==
    /\ history.pc = "model"
    /\ history.faults < MaxChatFaults
    /\ ChatReplyStep(reply, FALSE, 1)

\* a statement between the append of the user message and the save raises (the
\* memory reads, the call of the model): except Exception: return the error;
\* the list of this call is dropped and the file stays as it was
ChatFaultOf ==
    /\ history.pc = "model"
    /\ history.faults < MaxChatFaults
    /\ history' = [history EXCEPT !.pc = "idle", !.local = <<>>,
                                  !.faults = history.faults + 1]
    /\ UNCHANGED evaluation_vars
    /\ UNCHANGED retrieval_vars
    /\ UNCHANGED <<probe, admin, edits, edited, settings_overrides, settings_obs,
                   tools, tool_calls, lookups, overtaken, legacy_db, stores>>

\* the message and the reply of the n-th chat call are numbered n
ChatBegin == ChatBeginOf(history.said + 1)

ChatBeginFault == \E moved \in BOOLEAN : ChatBeginFaultOf(history.said + 1, moved)

ChatReply == ChatReplyOf(history.said)

ChatSaveFault == ChatSaveFaultOf(history.said)

ChatFault == ChatFaultOf

\* a list of n messages, user and assistant in turn
Transcript(n) ==
    [i \in 1..n |-> [role |-> IF i % 2 = 1 THEN "user" ELSE "assistant", content |-> i]]

\* MemoryManager.prune(messages, reserve) called on its own: it reads and
\* writes nothing but its arguments and its result
PruneOf(messages, reserve) ==
    /\ \E result \in {prune(messages, reserve)} :
           history' = [history EXCEPT !.pruned = TRUE, !.input = messages,
                                      !.reserve = reserve, !.result = result]
    /\ UNCHANGED evaluation_vars
    /\ UNCHANGED retrieval_vars
    /\ UNCHANGED <<probe, admin, edits, edited, settings_overrides, settings_obs,
                   tools, tool_calls, lookups, overtaken, legacy_db, stores>>

\* the direct calls are made before the session chats: prune depends on
\* nothing but its arguments
Prune ==
    /\ history.said = 0
    /\ \E n \in 0..MaxMessages, reserve \in 0..MaxReserve : PruneOf(Transcript(n), reserve)

\* ---------------------------------------------------------------- facade retrieval

\* a thread outside MemoryTool.retrieve_memory
IdleLookup ==
    [pc |-> "idle",
     args |-> [user_id |-> "", query |-> <<>>, scope |-> <<>>, state_filter |-> "",
               limit |-> 0],
     final_scope |-> <<>>,
     result |-> [status |-> "none", reason |-> "none"]]

\* the scope check admits every scope
scope_rejected_never(scope, allowed_subjects) == FALSE

\* for s in scope: if "*" not in allowed_subjects and norm_s not in
\* allowed_subjects: return error
scope_rejected(scope, allowed_subjects) ==
    /\ S_star \notin allowed_subjects
    /\ \E i \in 1..Len(scope) : normalize_subject(scope[i]) \notin allowed_subjects

\* MemoryTool.retrieve_memory up to the call of the policy engine: the error it
\* returns itself, "raised" for an exception it lets through, or "delegate"
\* with final_scope (<<>> for None, <<list>> for a list)
tool_retrieve_memory(q, overrides) ==
    LET raw == raw_allowed_subjects(load_settings(overrides))
        scope == IF q.scope = <<>> THEN <<>> ELSE q.scope[1]
    IN  IF \E i \in 1..Len(raw) : raw[i].type # "str"
        THEN [status |-> "raised", reason |-> "AttributeError", final_scope |-> <<>>]
        ELSE IF scope_rejected(scope, {normalize_subject(raw[i].text) : i \in 1..Len(raw)})
        THEN [status |-> "error", reason |-> "scope_not_allowed", final_scope |-> <<>>]
        ELSE [status |-> "delegate", reason |-> "none",
              final_scope |-> IF scope = <<>> THEN <<>>
                              ELSE <<[i \in 1..Len(scope) |->
                                         Name(normalize_subject(scope[i]))]>>]

\* thread t runs MemoryTool.retrieve_memory(q) from the read of the settings up
\* to its own return or up to final_scope, before it calls the policy engine
ToolRetrieveStep(t, q, overrides) ==
    /\ lookups[t].pc = "idle"
    /\ retrievals[t].pc = "idle"
    /\ \E r \in {tool_retrieve_memory(q, overrides)} :
           lookups' = [lookups EXCEPT ![t] =
               IF r.status = "delegate"
               THEN [IdleLookup EXCEPT !.pc = "delegate", !.args = q,
                                       !.final_scope = r.final_scope]
               ELSE [IdleLookup EXCEPT !.pc = "done", !.args = q,
                                       !.result = [status |-> r.status,
                                                   reason |-> r.reason]]]
    /\ UNCHANGED retrieval_vars
    /\ UNCHANGED evaluation_vars
    /\ UNCHANGED <<probe, admin, edits, edited, settings_overrides, settings_obs,
                   tools, tool_calls, overtaken, history, legacy_db, stores>>

ToolRetrieveOf(t, q) == ToolRetrieveStep(t, q, settings_overrides)

\* the same call when get_all_overrides raises inside load_settings
ToolRetrieveFaultOf(t, q) ==
    /\ lookups[t].pc = "idle"
    /\ ToolRetrieveStep(t, q, get_all_overrides_failed)

\* result = self.policy.retrieve_memory(user_id, query, scope=final_scope,
\* state_filter, limit, correlation_id): the call enters the policy engine
ToolDelegateOf(t) ==
    /\ lookups[t].pc = "delegate"
    /\ lookups' = [lookups EXCEPT ![t].pc = "policy"]
    /\ RetrieveBeginStep(t, [lookups[t].args EXCEPT !.scope = lookups[t].final_scope])
    /\ UNCHANGED <<probe, admin, edits, edited, settings_overrides, settings_obs,
                   tools, tool_calls, overtaken, history, legacy_db, stores>>

\* the result reaches the caller of thread t: the facade's own error, or
\* `return result` with what the policy engine returned
ToolRetrieveReturnOf(t) ==
    /\ \/ lookups[t].pc = "done" /\ UNCHANGED retrievals
       \/ /\ lookups[t].pc = "policy"
          /\ retrievals[t].pc = "done"
          /\ retrievals' = [retrievals EXCEPT ![t] = IdleRetrieval]
    /\ lookups' = [lookups EXCEPT ![t] = IdleLookup]
    /\ UNCHANGED <<now, rate_limits, requested, rate_obs>>
    /\ UNCHANGED evaluation_vars
    /\ UNCHANGED <<probe, admin, edits, edited, settings_overrides, settings_obs,
                   tools, tool_calls, overtaken, history, legacy_db, stores>>

ToolDelegate == \E t \in Threads : ToolDelegateOf(t)

ToolRetrieveReturn == \E t \in Threads : ToolRetrieveReturnOf(t)

\* ---------------------------------------------------------------- specifications

\* a fresh database (MemoryDB._init_db on an empty file), every thread idle
Init ==
    /\ memories = <<>>
    /\ memory_versions = {}
    /\ calls = [t \in Threads |-> IdleCall]
    /\ begun = 0
    /\ lineage_obs = <<>>
    /\ seq_obs = [prev |-> IdleCall, memories |-> <<>>, memory_versions |-> {}]
    /\ now = 0
    /\ rate_limits = {}
    /\ retrievals = [t \in Threads |-> IdleRetrieval]
    /\ requested = 0
    /\ rate_obs = {}
    /\ probe = IdleProbe
    /\ admin = IdleAdmin
    /\ edits = [t \in Threads |-> IdleEdit]
    /\ edited = 0
    /\ settings_overrides = {}
    /\ settings_obs = [n |-> 0, last |-> {}]
    /\ tools = [t \in Threads |-> IdleTool]
    /\ tool_calls = 0
    /\ overtaken = {}
    /\ lookups = [t \in Threads |-> IdleLookup]
    /\ history = IdleHistory
    /\ legacy_db = EmptyLegacy
    /\ stores = [t \in Threads |-> IdleStore]

\* two worker threads share the database
Next ==
    \/ Begin(Proposals, {"t1", "t2"})
    \/ Read
    \/ Cas
    \/ InsertSupersede
    \/ Rollback
    \/ InsertAccept
    \/ Return

Spec == Init /\ [][Next]_vars

\* The arguments of the calls of the fair specification: a fact, and a colliding
\* fact in the same and in another session.
FairProposals ==
    {Proposal("s1", "u1", "Work", C_ab, 6, "inferred"),
     Proposal("s1", "u1", "Work", C_abc, 6, "inferred"),
     Proposal("s2", "u1", "Work", C_abc, 6, "inferred")}

FairNext ==
    \/ Begin(FairProposals, {"t1", "t2"})
    \/ Read
    \/ Cas
    \/ InsertSupersede
    \/ Rollback
    \/ InsertAccept
    \/ Return

\* the threads run: a database call is bounded by the busy timeout, the backoff
\* sleep is bounded
FairSpec ==
    /\ Init
    /\ [][FairNext]_vars
    /\ \A t \in Threads :
           WF_vars(ReadOf(t) \/ CasOf(t) \/ InsertSupersedeOf(t) \/ RollbackOf(t)
                   \/ InsertAcceptOf(t))

\* one caller (thread t1): a call begins only after the previous one returned
SeqBegin ==
    /\ begun < MaxCalls
    /\ \E p \in SeqProposals : BeginOf("t1", p)
    /\ seq_obs' = [seq_obs EXCEPT !.memories = memories,
                                  !.memory_versions = memory_versions]

SeqReturn ==
    /\ ReturnOf("t1")
    /\ seq_obs' = [seq_obs EXCEPT !.prev = calls["t1"]]

SeqNext ==
    \/ SeqBegin
    \/ Read
    \/ Cas
    \/ InsertSupersede
    \/ Rollback
    \/ InsertAccept
    \/ SeqReturn

SeqSpec == Init /\ [][SeqNext]_vars

\* The arguments of the calls on the failing database: a fact, and a colliding
\* fact in the same and in another session.
FaultProposals ==
    {Proposal("s1", "u1", "Work", C_ab, 6, "inferred"),
     Proposal("s1", "u1", "Work", C_abc, 6, "inferred"),
     Proposal("s2", "u1", "Work", C_abc, 6, "inferred")}

FaultBegin ==
    /\ begun < MaxCalls
    /\ \E p \in FaultProposals : BeginOf("t1", p)
    /\ seq_obs' = [seq_obs EXCEPT !.memories = memories,
                                  !.memory_versions = memory_versions]

\* one caller on a database whose operations may fail unexpectedly
FaultNext ==
    \/ FaultBegin
    \/ Read
    \/ Cas
    \/ InsertSupersede
    \/ Rollback
    \/ InsertAccept
    \/ ReadFault
    \/ CasFault
    \/ InsertSupersedeFault
    \/ RollbackFault
    \/ InsertAcceptFault
    \/ SeqReturn

FaultSpec == Init /\ [][FaultNext]_vars

\* ---------------------------------------------------------------- retrieval

C_c == <<"c">>

C_cB == <<"c", " ", "B">>

\* What the writer stores: a fact and its extension (a supersede), a low-confidence
\* manual fact, a fact of another subject with a source outside the table, a fact
\* that ties with the first one in every ranking key but the id, and a shared fact
\* of another user.
RetrProposals ==
    {Proposal("s1", "u1", "Work", C_ab, 6, "inferred"),
     Proposal("s1", "u1", "Work", C_abc, 6, "inferred"),
     Proposal("s1", "u1", "Work", C_cB, 4, "manual"),
     Proposal("s1", "u1", "Hobbies", C_c, 9, "system"),
     Proposal("s1", "u1", "Hobbies", C_Ab, 6, "inferred"),
     Shared(Proposal("s1", "u2", "Work", C_ab, 6, "inferred"))}

\* What the readers ask: every state filter that has rows, scopes None, a list, a
\* list with the wildcard, a query, limits below zero, zero, one, and above the cap.
RetrRequests ==
    {Request("u1", <<>>, <<>>, "active", 5),
     Request("u1", <<>>, <<>>, "superseded", 5),
     Request("u1", <<>>, << <<"Work">> >>, "active", 1),
     Request("u1", <<"A">>, << <<"Hobbies", "*">> >>, "active", 21),
     Request("u1", <<>>, << <<"Hobbies">> >>, "active", 0),
     Request("u2", <<>>, <<>>, "active", -1)}

RetrWrite ==
    /\ begun < MaxWrites
    /\ \E p \in RetrProposals : BeginOf("t1", p)
    /\ UNCHANGED seq_obs

\* One thread writes, two threads read, the clock runs. The writer proposes no
\* content for two subjects or sessions of one user, so the insert that follows
\* a supersede never meets a duplicate and the evaluations never roll back.
RetrNext ==
    \/ RetrWrite
    \/ Read
    \/ Cas
    \/ InsertSupersede
    \/ InsertAccept
    \/ Return
    \/ RetrieveBegin(RetrRequests, {"t2", "t3"}, MaxRetrievals)
    \/ RateLimit
    \/ Query
    \/ RetrieveReturn
    \/ Tick(1, MaxTime)

RetrSpec == Init /\ [][RetrNext]_vars

\* ---------------------------------------------------------------- hard cap

Letters == <<"a", "b", "c">>

\* f"Fact {i}": the i-th of the distinct facts, none of which shares a word with
\* another
Fact(i) ==
    <<Letters[((i \div 9) % 3) + 1], Letters[((i \div 3) % 3) + 1], Letters[(i % 3) + 1]>>

\* for i in range(25): evaluate_and_store(session_id, f"Fact {i}", ..., "Spam", ...,
\* user_e, confidence_score=0.5, source="inferred")
CapFill ==
    /\ begun < MaxFill
    /\ BeginOf("t1", Proposal("s1", "user_e", "Spam", Fact(begun), 5, "inferred"))
    /\ UNCHANGED seq_obs

\* retrieve_memory(user_id=user_e, scope=["Spam"], limit=...) with limits above,
\* at and below the cap, zero and negative
CapRequests ==
    {Request("user_e", <<>>, << <<"Spam">> >>, "active", limit) :
        limit \in {50, 20, 5, 0, -1}}

\* The fill loop and a reader. No fact collides with another, so the evaluations
\* take the read, the insert and the return.
CapNext ==
    \/ CapFill
    \/ Read
    \/ InsertAccept
    \/ Return
    \/ RetrieveBegin(CapRequests, {"t2"}, MaxCapRetrievals)
    \/ RateLimit
    \/ Query
    \/ RetrieveReturn

CapSpec == Init /\ [][CapNext]_vars

\* ---------------------------------------------------------------- rate limit

\* for _ in range(50): policy.retrieve_memory(user_id=user_f), and once more
RateRequests == {Request("u1", <<>>, <<>>, "active", 5)}

\* a request of another user, and three requests that fail validation
OtherRequests ==
    {Request("u2", <<>>, <<>>, "active", 5),
     Request("", <<>>, <<>>, "active", 5),
     Request("u1", <<>>, <<>>, "bogus", 5),
     Request("", <<>>, <<>>, "bogus", 5)}

RateBegin == RetrieveBegin(RateRequests, {"t1", "t2"}, MaxRateRequests)

OtherBegin == RetrieveBegin(OtherRequests, {"t1", "t2"}, MaxOtherRequests)

\* the clock passes into the next window, far enough for the first to be stale
RateTick == Tick(window_seconds + 1, MaxRateTime)

\* two threads call for one user on an empty store, the clock runs
RateNext ==
    \/ RateBegin
    \/ OtherBegin
    \/ RateLimit
    \/ Query
    \/ RetrieveReturn
    \/ RateTick

RateSpec == Init /\ [][RateNext]_vars

RateFaultBegin == RetrieveBegin(RateRequests, {"t1", "t2"}, MaxFaultRequests)

\* a third thread stores one fact of the user
RateFaultWrite ==
    /\ begun < MaxFaultWrites
    /\ BeginOf("t3", Proposal("s1", "u1", "Work", C_ab, 6, "inferred"))
    /\ UNCHANGED seq_obs

\* the same callers beside one stored fact; the storage operations of
\* check_rate_limit and of retrieve_memories may raise
RateFaultNext ==
    \/ RateFaultBegin
    \/ RateFaultWrite
    \/ Read
    \/ InsertAccept
    \/ Return
    \/ RateLimit
    \/ RateLimitFault
    \/ Query
    \/ QueryFault
    \/ RetrieveReturn
    \/ RateTick

RateFaultSpec == Init /\ [][RateFaultNext]_vars

\* the requests of a second user
NeighbourRequests == {Request("u2", <<>>, <<>>, "active", 5)}

\* the second user calls, up to MaxNeighbourRequests times in one window
NeighbourBegin ==
    /\ retrievals["t2"].pc = "idle"
    /\ Observed("u2", now) < MaxNeighbourRequests
    /\ RetrieveBegin(NeighbourRequests, {"t2"}, MaxRateRequests)

ThrottledBegin == RetrieveBegin(RateRequests, {"t1"}, MaxRateRequests)

\* one thread calls for the throttled user, another for a second user, the
\* clock runs
NeighbourNext ==
    \/ ThrottledBegin
    \/ NeighbourBegin
    \/ RateLimit
    \/ Query
    \/ RetrieveReturn
    \/ RateTick

NeighbourSpec == Init /\ [][NeighbourNext]_vars

\* ---------------------------------------------------------------- identical flood

\* scripts/test_concurrency.py worker_insert_identical: after some calls of a
\* single caller (thread t1) have built a store, every thread proposes the same
\* fact once, in parallel.  The flood has started when t2 or t3 is in a call.
FloodStarted == calls["t2"].pc # "idle" \/ calls["t3"].pc # "idle"

SameArgs(c, p) ==
    /\ c.session_id = p.session_id
    /\ c.user_id = p.user_id
    /\ c.subject = p.subject
    /\ c.content = p.content
    /\ c.confidence_score = p.confidence_score
    /\ c.source = p.source

\* no active memory of the user collides with the content, lexically or by hash
NoCollidingActive(p) ==
    \A j \in 1..Len(memories) :
        (memories[j].state = "active" /\ memories[j].user_id = p.user_id) =>
            /\ ~Collides(p.content, latest_content(memory_versions, j))
            /\ memories[j].content_hash # content_hash(p.content)

FloodProposals ==
    {Proposal("s1", "u1", "Work", C_ab, 8, "inferred"),
     Proposal("s1", "u1", "Work", C_abc, 6, "manual"),
     Proposal("s1", "u2", "Work", C_blank, 6, "inferred")}

SetupBegin ==
    /\ ~FloodStarted
    /\ Begin(Proposals, {"t1"})

SetupReturn ==
    /\ ~FloodStarted
    /\ ReturnOf("t1")
    /\ UNCHANGED seq_obs

FloodBegin ==
    /\ \E t \in Threads, p \in FloodProposals :
           /\ IF FloodStarted
              THEN \E u \in Threads : calls[u].pc # "idle" /\ SameArgs(calls[u], p)
              ELSE /\ t # "t1"
                   /\ calls["t1"].pc = "idle"
                   /\ NoCollidingActive(p)
           /\ BeginOf(t, p)
    /\ UNCHANGED seq_obs

FloodNext ==
    \/ SetupBegin
    \/ SetupReturn
    \/ FloodBegin
    \/ Read
    \/ Cas
    \/ InsertSupersede
    \/ Rollback
    \/ InsertAccept

FloodSpec == Init /\ [][FloodNext]_vars

\* ---------------------------------------------------------------- overlap test

\* a fresh database, and a pair of contents to compare
ProbeInit ==
    /\ memories = <<>>
    /\ memory_versions = {}
    /\ calls = [t \in Threads |-> IdleCall]
    /\ begun = 0
    /\ lineage_obs = <<>>
    /\ seq_obs = [prev |-> IdleCall, memories |-> <<>>, memory_versions |-> {}]
    /\ now = 0
    /\ rate_limits = {}
    /\ retrievals = [t \in Threads |-> IdleRetrieval]
    /\ requested = 0
    /\ rate_obs = {}
    /\ \E new \in ProbeInputs, existing \in ProbeInputs :
           probe = [IdleProbe EXCEPT !.pc = "ready", !.new = new, !.existing = existing]
    /\ admin = IdleAdmin
    /\ edits = [t \in Threads |-> IdleEdit]
    /\ edited = 0
    /\ settings_overrides = {}
    /\ settings_obs = [n |-> 0, last |-> {}]
    /\ tools = [t \in Threads |-> IdleTool]
    /\ tool_calls = 0
    /\ overtaken = {}
    /\ lookups = [t \in Threads |-> IdleLookup]
    /\ history = IdleHistory
    /\ legacy_db = EmptyLegacy
    /\ stores = [t \in Threads |-> IdleStore]

ProbeNext == Overlap

ProbeSpec == ProbeInit /\ [][ProbeNext]_vars

\* ---------------------------------------------------------------- set_memory_state

\* the writer's facts: two that collide, and the first one for a second user
StateProposals ==
    {Proposal("s1", "u1", "Work", C_ab, 6, "inferred"),
     Proposal("s1", "u1", "Work", C_abc, 6, "inferred"),
     Proposal("s1", "u2", "Work", C_ab, 6, "inferred")}

StateWrite ==
    /\ begun < MaxStateWrites
    /\ \E p \in StateProposals : BeginOf("t1", p)
    /\ UNCHANGED seq_obs

\* one thread stores facts through the policy engine while set_memory_state is
\* called directly
StateNext ==
    \/ StateWrite
    \/ Read
    \/ Cas
    \/ InsertSupersede
    \/ Rollback
    \/ InsertAccept
    \/ Return
    \/ SetState

StateSpec == Init /\ [][StateNext]_vars

\* ---------------------------------------------------------------- edit_memory

\* the fact stored through the policy engine
EditProposals == {Proposal("s1", "u1", "Work", C_ab, 6, "inferred")}

\* no call on the legacy database is under way
LegacyQuiet == \A t \in Threads : stores[t].pc = "idle" /\ edits[t].pc = "idle"

\* no call on the engine's database is under way
EngineQuiet == \A t \in Threads : calls[t].pc = "idle"

\* the engine's database is another file than the legacy one, so a call on one
\* commutes with every call on the other: the two kinds of call are begun one
\* after the other
EditWrite ==
    /\ begun < MaxEngineWrites
    /\ LegacyQuiet
    /\ \E p \in EditProposals : BeginOf("t1", p)
    /\ UNCHANGED seq_obs

\* the facts stored in the legacy database: one content from two sessions, and
\* a second content that holds every word of the first
LegacyStores ==
    {LegacyArgs(session_id, content, <<"2", "0", "2", "6", "-", "0", "2", "-", "2", "3">>,
                "Work", 3, "u1") :
         session_id \in {"s1", "s2"}, content \in {C_ab, C_abc}}

\* the rows of the legacy database, those about to be inserted included
LegacyRows ==
    Len(legacy_db.memories) + Cardinality({t \in Threads : stores[t].pc = "insert"})

\* two threads store, up to MaxEditWrites rows
LegacyStoreBegin ==
    /\ LegacyRows < MaxEditWrites
    /\ EngineQuiet
    /\ \E t \in {"t1", "t2"}, a \in LegacyStores :
           /\ edits[t].pc = "idle"
           /\ LegacyStoreBeginOf(t, a)

LegacyStoreBeginFault ==
    /\ LegacyRows < MaxEditWrites
    /\ EngineQuiet
    /\ \E t \in {"t1", "t2"}, a \in LegacyStores :
           /\ edits[t].pc = "idle"
           /\ LegacyStoreBeginFaultOf(t, a)

\* edits of the rows 1..MaxEditWrites, stored or still missing, by the owning
\* session, another session, and without a session; each editing thread has
\* its content
EditInputs ==
    {<<"t2", memory_id, C_c, session_id>> :
         memory_id \in 1..MaxEditWrites, session_id \in {"", "s1", "s2"}}
    \cup {<<"t3", memory_id, C_cB, session_id>> :
              memory_id \in 1..MaxEditWrites, session_id \in {"", "s1", "s2"}}

EditBegin ==
    /\ EngineQuiet
    /\ \E i \in EditInputs :
           /\ stores[i[1]].pc = "idle"
           /\ EditBeginOf(i[1], i[2], i[3], i[4])

EditBeginFault ==
    /\ EngineQuiet
    /\ \E i \in EditInputs :
           /\ stores[i[1]].pc = "idle"
           /\ EditBeginFaultOf(i[1], i[2], i[3], i[4])

\* Two threads store facts in the legacy database and two threads edit them;
\* every statement of these calls may raise. One thread stores a fact in the
\* engine's database through the policy engine. The two databases are two
\* files: no call of one reads or writes the other.
EditNext ==
    \/ LegacyStoreBegin
    \/ LegacyStoreBeginFault
    \/ LegacyStoreInsert
    \/ LegacyStoreInsertFault
    \/ LegacyStoreReturn
    \/ EditBegin
    \/ EditBeginFault
    \/ EditMax
    \/ EditInsert
    \/ EditFault
    \/ EditReturn
    \/ EditWrite
    \/ Read
    \/ InsertAccept
    \/ Return

EditSpec == Init /\ [][EditNext]_vars

\* ---------------------------------------------------------------- settings overrides

\* the keys written: the two the facade reads and one it does not know
OverrideKeys == {"memory_extraction_threshold", "allowed_subjects", "theme"}

\* the values written: texts, and values that are not strings
OverrideValues ==
    {PyStr("4.0"), PyStr("not_a_number"), PyStr("[\"Work\", \"Health\"]"),
     PyInt(4), PyFloat(35), PyBool(TRUE), PyNone}

SetOverride ==
    \E key \in OverrideKeys, value \in OverrideValues : SetOverrideOf(key, value)

SettingsNext == SetOverride

SettingsSpec == Init /\ [][SettingsNext]_vars

\* ---------------------------------------------------------------- memory tool facade

D_2026_02_23 == <<"2", "0", "2", "6", "-", "0", "2", "-", "2", "3">>

D_slashes == <<"2", "0", "2", "6", "/", "0", "2", "/", "2", "3">>

D_2026_1_5 == <<"2", "0", "2", "6", "-", "1", "-", "5">>

D_2026_02_30 == <<"2", "0", "2", "6", "-", "0", "2", "-", "3", "0">>

D_2024_02_29 == <<"2", "0", "2", "4", "-", "0", "2", "-", "2", "9">>

D_invalid_date == <<"i", "n", "v", "a", "l", "i", "d", "-", "d", "a", "t", "e">>

D_empty == <<>>

\* what the tool is called with: a valid date with every kind of importance and
\* subject, a second content, and every other date with an integer and with a
\* text as importance
FacadeArgs ==
    {ToolArgs(C_ab, D_2026_02_23, subject, importance) :
         subject \in {S_Work, S_work_blanks, S_Hobbies, S_empty, S_blanks},
         importance \in {PyInt(2), PyInt(3), PyInt(4), PyBool(TRUE), PyFloat(40),
                         PyStr("4"), PyNone}}
    \cup {ToolArgs(C_abc, D_2026_02_23, subject, PyInt(4)) : subject \in {S_Work, S_Hobbies}}
    \cup {ToolArgs(C_ab, memory_date, S_Work, importance) :
              memory_date \in {D_slashes, D_2026_1_5, D_2026_02_30, D_2024_02_29,
                               D_invalid_date, D_empty},
              importance \in {PyInt(4), PyStr("4")}}

StoreMemory == \E a \in FacadeArgs : StoreMemoryOf("t1", a)

\* the overrides written beside the calls: thresholds that parse and one that
\* does not, allow-lists, and texts that are no list of strings
FacadeOverride ==
    /\ settings_obs.n < MaxToolOverrides
    /\ \/ \E value \in {PyStr("4.0"), PyStr("not_a_number"), PyFloat(35)} :
              SetOverrideOf(THRESHOLD, value)
       \/ \E value \in {PyStr("[\"Work\"]"), PyStr("[\"General\"]"), PyStr("[\"  work  \"]"),
                        PyStr("[1]"), PyStr("just a totally raw string not even json")} :
              SetOverrideOf(ALLOWED, value)

\* one thread calls store_memory while the settings are overridden
FacadeNext ==
    \/ StoreMemory
    \/ Read
    \/ Cas
    \/ InsertSupersede
    \/ Rollback
    \/ InsertAccept
    \/ StoreMemoryReturn
    \/ FacadeOverride

FacadeSpec == Init /\ [][FacadeNext]_vars

\* ---------------------------------------------------------------- chat history

\* prune is called on lists of every length with every reserve; then one
\* session chats, and its file and the model may fail
HistoryNext ==
    \/ ChatBegin
    \/ ChatBeginFault
    \/ ChatReply
    \/ ChatSaveFault
    \/ ChatFault
    \/ Prune

HistorySpec == Init /\ [][HistoryNext]_vars

\* ---------------------------------------------------------------- scope validation

\* what the tool is asked: no scope, the empty list, an allowed and a forbidden
\* subject, a subject written with blanks and in lower case, both together, the
\* wildcard, and a subject of blanks
ScopeRequests ==
    {Request("u1", <<>>, scope, "active", 5) :
        scope \in {<<>>, << <<>> >>, << <<S_Work>> >>, << <<S_Hobbies>> >>,
                   << <<S_work_blanks>> >>, << <<S_Work, S_Hobbies>> >>,
                   << <<S_star>> >>, << <<S_blanks>> >>}}

ToolRetrieve ==
    /\ requested < MaxRetrievals
    /\ \E q \in ScopeRequests : ToolRetrieveOf("t2", q)

\* the allow-lists written beside the calls
ScopeOverride ==
    /\ settings_obs.n < MaxToolOverrides
    /\ \E value \in {PyStr("[\"Work\"]"), PyStr("[\"General\"]"), PyStr("[\"*\"]"),
                     PyStr("[\"  work  \"]"), PyStr("[1]")} :
           SetOverrideOf(ALLOWED, value)

\* one thread writes the store, one thread retrieves through the tool, the
\* allow-list is overridden
ScopeNext ==
    \/ RetrWrite
    \/ Read
    \/ Cas
    \/ InsertSupersede
    \/ InsertAccept
    \/ Return
    \/ ScopeOverride
    \/ ToolRetrieve
    \/ ToolDelegate
    \/ RateLimit
    \/ Query
    \/ ToolRetrieveReturn

ScopeSpec == Init /\ [][ScopeNext]_vars

\* ---------------------------------------------------------------- database outages

\* what the tool stores: a fact at the stored threshold and below it, a second
\* fact that supersedes it, and that second fact under a forbidden subject
OutageArgs ==
    {ToolArgs(C_ab, D_2026_02_23, S_Work, PyInt(4)),
     ToolArgs(C_ab, D_2026_02_23, S_Work, PyInt(3)),
     ToolArgs(C_abc, D_2026_02_23, S_Work, PyInt(4)),
     ToolArgs(C_abc, D_2026_02_23, S_Hobbies, PyInt(4))}

\* what the tool is asked: an allowed and a forbidden subject
OutageRequests ==
    {Request("u1", <<>>, scope, "active", 5) :
        scope \in {<< <<S_Work>> >>, << <<S_Hobbies>> >>}}

\* the overrides written: a threshold that parses, one that does not, an allow-list
OutageOverrides ==
    {<<THRESHOLD, PyStr("4.0")>>, <<THRESHOLD, PyStr("not_a_number")>>,
     <<ALLOWED, PyStr("[\"Work\"]")>>}

OutageStore ==
    /\ tool_calls < MaxOutageStores
    /\ \E a \in OutageArgs : StoreMemoryOf("t1", a)

OutageStoreFault ==
    /\ tool_calls < MaxOutageStores
    /\ \E a \in OutageArgs : StoreMemoryFaultOf("t1", a)

OutageOverride ==
    /\ settings_obs.n < MaxOutageCalls
    /\ \E w \in OutageOverrides : SetOverrideOf(w[1], w[2])

OutageOverrideFault ==
    /\ settings_obs.n < MaxOutageCalls
    /\ \E w \in OutageOverrides : SetOverrideFaultOf(w[1], w[2])

OutageRetrieve ==
    /\ requested < MaxOutageCalls
    /\ \E q \in OutageRequests : ToolRetrieveOf("t2", q)

OutageRetrieveFault ==
    /\ requested < MaxOutageCalls
    /\ \E q \in OutageRequests : ToolRetrieveFaultOf("t2", q)

OutageSetState ==
    /\ admin.n < MaxOutageCalls
    /\ SetState

OutageSetStateFault ==
    /\ admin.n < MaxOutageCalls
    /\ SetStateFault

\* One thread stores through the tool, the settings are overridden and
\* set_memory_state is called directly; every call on the database may raise,
\* those of the policy engine included, and the code's except branch answers.
OutageNext ==
    \/ OutageStore
    \/ OutageStoreFault
    \/ Read
    \/ Cas
    \/ InsertSupersede
    \/ Rollback
    \/ InsertAccept
    \/ ReadFault
    \/ CasFault
    \/ InsertSupersedeFault
    \/ RollbackFault
    \/ InsertAcceptFault
    \/ StoreMemoryReturn
    \/ OutageSetState
    \/ OutageSetStateFault
    \/ OutageOverride
    \/ OutageOverrideFault

OutageSpec == Init /\ [][OutageNext]_vars

\* the fact stored beside the retrievals
OutageWrite ==
    /\ begun < MaxFaultWrites
    /\ BeginOf("t3", Proposal("s1", "u1", "Work", C_ab, 6, "inferred"))
    /\ UNCHANGED seq_obs

\* One thread stores a fact through the policy engine, one thread retrieves
\* through the tool, the allow-list and the threshold are overridden; every
\* call on the database may raise. The store is empty when the fact arrives,
\* so its evaluation finds no conflict and goes from the read to the insert.
LookupOutageNext ==
    \/ OutageWrite
    \/ Read
    \/ InsertAccept
    \/ ReadFault
    \/ InsertAcceptFault
    \/ Return
    \/ OutageOverride
    \/ OutageOverrideFault
    \/ OutageRetrieve
    \/ OutageRetrieveFault
    \/ ToolDelegate
    \/ RateLimit
    \/ RateLimitFault
    \/ Query
    \/ QueryFault
    \/ ToolRetrieveReturn

LookupOutageSpec == Init /\ [][LookupOutageNext]_vars

\* ---------------------------------------------------------------- claims

ActiveRows == {j \in 1..Len(memories) : memories[j].state = "active"}

InCall(t) == calls[t].pc \notin {"idle", "done"}

Outcomes ==
    {"ACCEPT_REASON_NEW_FACT", "SUPERSEDE_REASON_CONTENT_OVERLAP",
     "REJECT_REASON_PRECEDENCE_TOO_LOW", "EXISTS_REASON_EXACT_MATCH",
     "EXISTS_REASON_NATIVE_CONSTRAINT"}

ActiveUnique(mems) ==
    \A i, j \in 1..Len(mems) :
        (/\ i # j
         /\ mems[i].state = "active"
         /\ mems[j].state = "active"
         /\ mems[i].user_id = mems[j].user_id)
        => mems[i].content_hash # mems[j].content_hash

\* C1 (I1): after every step at most one row of a (user_id, content_hash) is
\* active, and a step in which insert_memory returned DUPLICATE or
\* set_memory_state returned false left memories and memory_versions as they were.
C1_ActiveUniqueness ==
    [][/\ ActiveUnique(memories')
       /\ \A t \in Threads :
              (calls'[t] # calls[t] /\ calls'[t].db_ret \in {"duplicate", "false"})
              => (memories' = memories /\ memory_versions' = memory_versions)]_vars

\* a rollback set_memory_state(id, 'active') was refused by the index: the row the
\* call superseded is still superseded and a row with its user and hash is active
C1_Witness ==
    \E t \in Threads :
        /\ calls[t].db_ret = "false"
        /\ calls[t].conflict_id \in calls[t].own_superseded
        /\ memories[calls[t].conflict_id].state = "superseded"
        /\ idx_active_memories_hash_violated(memories, calls[t].conflict_id,
               memories[calls[t].conflict_id].user_id,
               memories[calls[t].conflict_id].content_hash)

FloodDone == FloodStarted /\ \A t \in Threads : calls[t].pc = "done"

\* C2: when every call of an identical flood has decided, exactly one returned
\* ACCEPT, the others EXISTS (exact match or native constraint), and exactly one
\* row of the flood's (user, content_hash) is active.
C2_IdenticalFlood ==
    FloodDone =>
        /\ Cardinality({t \in Threads :
               calls[t].reason_code = "ACCEPT_REASON_NEW_FACT"}) = 1
        /\ \A t \in Threads :
               calls[t].reason_code \in {"ACCEPT_REASON_NEW_FACT",
                   "EXISTS_REASON_EXACT_MATCH", "EXISTS_REASON_NATIVE_CONSTRAINT"}
        /\ Cardinality({j \in ActiveRows :
               /\ memories[j].user_id = calls["t2"].user_id
               /\ memories[j].content_hash = content_hash(calls["t2"].content)}) = 1

\* a flood on a store that already holds rows, decided with both EXISTS reasons
C2_Witness ==
    /\ FloodDone
    /\ Len(memories) >= 2
    /\ \E t \in Threads : calls[t].reason_code = "EXISTS_REASON_EXACT_MATCH"
    /\ \E t \in Threads : calls[t].reason_code = "EXISTS_REASON_NATIVE_CONSTRAINT"

\* the rows the calls in progress have inserted that are active
Winners(T) ==
    {t \in T : calls[t].memory_id # 0 /\ memories[calls[t].memory_id].state = "active"}

\* C3: two overlapping calls of the same session, user and subject with colliding
\* contents, different also after trimming, have both decided: exactly one of the rows they proposed is
\* active.
C3_ExactlyOneWins ==
    (/\ calls["t1"].pc = "done"
     /\ calls["t2"].pc = "done"
     /\ calls["t1"].session_id = calls["t2"].session_id
     /\ calls["t1"].user_id = calls["t2"].user_id
     /\ calls["t1"].subject = calls["t2"].subject
     /\ Strip(calls["t1"].content) # Strip(calls["t2"].content)
     /\ Collides(calls["t1"].content, calls["t2"].content))
    => Cardinality(Winners({"t1", "t2"})) = 1

Superseded(c) == c.pc = "done" /\ c.reason_code = "SUPERSEDE_REASON_CONTENT_OVERLAP"

\* C4: the step in which a call decides SUPERSEDE inserts one row, active, with
\* the call's arguments and content and supersedes_memory_id = the conflict
\* target, and returns its id; then and until the result reaches the caller the
\* target is superseded and the new row points to it.
C4_SupersedeOutcome ==
    [][\A t \in Threads :
          Superseded(calls'[t]) =>
              /\ calls'[t].conflict_id \in 1..Len(memories')
              /\ memories'[calls'[t].conflict_id].state = "superseded"
              /\ calls'[t].memory_id \in 1..Len(memories')
              /\ memories'[calls'[t].memory_id].supersedes_memory_id = calls'[t].conflict_id
              /\ ~Superseded(calls[t]) =>
                    /\ Len(memories') = Len(memories) + 1
                    /\ calls'[t].memory_id = Len(memories')
                    /\ memories'[Len(memories')].state = "active"
                    /\ memories'[Len(memories')].user_id = calls'[t].user_id
                    /\ memories'[Len(memories')].session_id = calls'[t].session_id
                    /\ memories'[Len(memories')].subject = calls'[t].subject
                    /\ latest_content(memory_versions', Len(memories')) = calls'[t].content]_vars

\* a call has decided SUPERSEDE while another call is running
C4_Witness ==
    \E t, u \in Threads : Superseded(calls[t]) /\ InCall(u)

\* C5: a single caller's call that found a conflict target with different trimmed
\* content returns REJECT when the incoming fact loses precedence and SUPERSEDE
\* otherwise.
C5_PrecedenceDecision ==
    LET c == calls["t1"]
    IN  (/\ c.pc = "done"
         /\ c.conflict_id # 0
         /\ Strip(c.content) # Strip(latest_content(memory_versions, c.conflict_id)))
        => IF loses_precedence(c.source, c.confidence_score, memories[c.conflict_id])
           THEN c.reason_code = "REJECT_REASON_PRECEDENCE_TOO_LOW"
           ELSE c.reason_code = "SUPERSEDE_REASON_CONTENT_OVERLAP"

\* the single caller's previous call returned ACCEPT for the same user with a
\* content equal after trimming to the content of the call that has now decided
SecondOfTrimEqualPair ==
    /\ calls["t1"].pc = "done"
    /\ seq_obs.prev.reason_code = "ACCEPT_REASON_NEW_FACT"
    /\ seq_obs.prev.user_id = calls["t1"].user_id
    /\ Strip(seq_obs.prev.content) = Strip(calls["t1"].content)

StoreAsAtBegin ==
    /\ memories = seq_obs.memories
    /\ memory_versions = seq_obs.memory_versions

\* C6 as claimed: the second call of such a pair returns EXISTS and the store is
\* as it was when the call began.
C6_TrimEqualExists ==
    SecondOfTrimEqualPair => (calls["t1"].status = "exists" /\ StoreAsAtBegin)

\* C6 amended: the same, for a pair with the same session and subject whose
\* content has at least one word or is the same characters in both calls.
C6_TrimEqualExistsSameKey ==
    (/\ SecondOfTrimEqualPair
     /\ seq_obs.prev.session_id = calls["t1"].session_id
     /\ seq_obs.prev.subject = calls["t1"].subject
     /\ \/ Words(calls["t1"].content) # {}
        \/ seq_obs.prev.content = calls["t1"].content)
    => (calls["t1"].status = "exists" /\ StoreAsAtBegin)

\* the second call differs from the first by blanks only and returned EXISTS
C6_Witness ==
    /\ SecondOfTrimEqualPair
    /\ seq_obs.prev.content # calls["t1"].content
    /\ seq_obs.prev.session_id = calls["t1"].session_id
    /\ calls["t1"].reason_code = "EXISTS_REASON_EXACT_MATCH"

\* C7: a call that returns REJECT or EXISTS has inserted no row and has left no
\* row in a state other than the one it found it in.
C7_RejectExistsNoChange ==
    \A t \in Threads :
        (calls[t].pc = "done" /\ calls[t].status \in {"rejected", "exists"})
        => (calls[t].memory_id = 0 /\ calls[t].own_superseded = {})

\* C8: a call reads the active set at most max_retries times; a call that has
\* returned has one of the five outcomes or the max-retries error, the latter
\* only after max_retries reads; and every call that is entered returns: as at
\* most MaxCalls calls are entered, that is, from some point on no call is in
\* progress.
C8_BoundedTermination ==
    /\ [](\A t \in Threads :
            /\ calls[t].reads <= max_retries
            /\ calls[t].pc = "done" =>
                  \/ calls[t].reason_code \in Outcomes
                  \/ /\ calls[t].status = "error"
                     /\ calls[t].reason_code = "max_retries_exceeded"
                     /\ calls[t].reads = max_retries)
    /\ <>[](\A t \in Threads : ~InCall(t))

\* a call has returned the max-retries error
C8_Witness ==
    \E t \in Threads :
        /\ calls[t].pc = "done"
        /\ calls[t].reason_code = "max_retries_exceeded"
        /\ calls[t].reads = max_retries

AllowedTransitions ==
    {<<"active", "superseded">>, <<"active", "archived">>, <<"active", "deleted">>,
     <<"superseded", "archived">>, <<"superseded", "deleted">>}

\* C9 (I6): every change of a row's state is an edge of the transition graph.
C9_TransitionGraph ==
    [][\A id \in 1..Len(memories) :
          memories'[id].state # memories[id].state
          => <<memories[id].state, memories'[id].state>> \in AllowedTransitions]_vars

\* C10 (I4): a non-null supersedes_memory_id points to an earlier row of the same
\* user and subject, which was superseded when the pointing row was inserted.
C10_Lineage ==
    \A id \in 1..Len(memories) :
        memories[id].supersedes_memory_id # 0 =>
            LET target == memories[id].supersedes_memory_id
            IN  /\ target \in 1..Len(memories)
                /\ target < id
                /\ memories[target].user_id = memories[id].user_id
                /\ memories[target].subject = memories[id].subject
                /\ lineage_obs[id] = "superseded"

\* a row points to the row it superseded, and was itself superseded later
C10_Witness ==
    \E id, later \in 1..Len(memories) :
        /\ memories[id].supersedes_memory_id # 0
        /\ memories[later].supersedes_memory_id = id

\* no evaluation is in progress
Quiescent == \A t \in Threads : ~InCall(t)

Successors(id) == {j \in 1..Len(memories) : memories[j].supersedes_memory_id = id}

\* C11: whenever no evaluation is in progress, every superseded row has exactly
\* one successor row, whose supersedes_memory_id is its id.
C11_LineageIntegrity ==
    Quiescent =>
        \A id \in 1..Len(memories) :
            memories[id].state = "superseded" => Cardinality(Successors(id)) = 1

AuditOf(c, event_type) ==
    {n \in 1..Len(c.audit) : c.audit[n].event_type = event_type}

\* C18: a call that has returned has emitted one policy_evaluation_started record
\* and exactly one policy_resolution_decided record, whose reason_code is one of
\* the five outcomes, both with the call's correlation_id.
C18_AuditTrail ==
    \A t \in Threads :
        calls[t].pc = "done" =>
            /\ Cardinality(AuditOf(calls[t], "policy_evaluation_started")) = 1
            /\ Cardinality(AuditOf(calls[t], "policy_resolution_decided")) = 1
            /\ \A n \in 1..Len(calls[t].audit) :
                   /\ calls[t].audit[n].correlation_id = calls[t].correlation_id
                   /\ calls[t].audit[n].event_type = "policy_resolution_decided"
                      => calls[t].audit[n].reason_code \in Outcomes

\* a row of this call: inserted with the call's arguments and content
OwnRow(c, id) ==
    /\ id \in 1..Len(memories)
    /\ memories[id].session_id = c.session_id
    /\ memories[id].user_id = c.user_id
    /\ memories[id].subject = c.subject
    /\ latest_content(memory_versions, id) = c.content

\* C19: a call in which a storage operation failed unexpectedly returns status
\* 'error'; no call returns status 'success' without a row it inserted.
C19_StorageFailureIsError ==
    \A t \in Threads :
        calls[t].pc = "done" =>
            /\ calls[t].faults # <<>> => calls[t].status = "error"
            /\ calls[t].status = "success" => OwnRow(calls[t], calls[t].memory_id)

\* the retrievals that returned a success result
Served == {t \in Threads : retrievals[t].pc = "done" /\ retrievals[t].status = "success"}

\* the ids of a result list, in order
Ids(results) == [i \in 1..Len(results) |-> results[i].id]

Matching(r) ==
    {id \in 1..Len(r.at.memories) :
        where_matches(r.at.memories, r.at.memory_versions, id, r.user_id, r.query,
                      scope_or_all(r.scope), r.state_filter)}

\* the result rows of r are in ranking order
Ranked(r) ==
    \A i, j \in 1..Len(r.results) :
        i < j =>
            LET a == r.results[i]
                b == r.results[j]
            IN  \/ source_weight(a.source) > source_weight(b.source)
                \/ /\ source_weight(a.source) = source_weight(b.source)
                   /\ a.confidence_score > b.confidence_score
                \/ /\ source_weight(a.source) = source_weight(b.source)
                   /\ a.confidence_score = b.confidence_score
                   /\ a.created_at > b.created_at
                \/ /\ source_weight(a.source) = source_weight(b.source)
                   /\ a.confidence_score = b.confidence_score
                   /\ a.created_at = b.created_at
                   /\ a.id > b.id

\* the result rows of r are the first n of the ranked matching rows
PrefixOfLength(r, n) ==
    /\ Range(Ids(r.results)) \subseteq Matching(r)
    /\ Len(r.results) = IF n < 0 THEN 0
                         ELSE IF n < Cardinality(Matching(r)) THEN n
                         ELSE Cardinality(Matching(r))
    /\ \A id \in Matching(r) \ Range(Ids(r.results)) :
           \A i \in 1..Len(r.results) :
               ranks_before(r.at.memories[r.results[i].id], r.at.memories[id])

\* C13: the result list of a retrieval is sorted by source weight descending
\* (manual 3, imported 2, inferred 1, any other source 0), then confidence, then
\* created_at, then id, all descending, and it is the prefix of length
\* min(limit, 20) of the full sorted list of matching rows.
C13_RankedPrefix ==
    \A t \in Served :
        /\ Ranked(retrievals[t])
        /\ PrefixOfLength(retrievals[t],
                          IF retrievals[t].limit < 20 THEN retrievals[t].limit ELSE 20)

\* two retrievals were called with the same arguments
SameRequest(a, b) ==
    /\ a.user_id = b.user_id
    /\ a.query = b.query
    /\ a.scope = b.scope
    /\ a.state_filter = b.state_filter
    /\ a.limit = b.limit

\* C14: two retrieve_memory calls with the same arguments, both admitted by the
\* rate limiter, whose queries ran on the same memories (no write between them),
\* return identical result sequences.
C14_Deterministic ==
    \A t, u \in Served :
        /\ SameRequest(retrievals[t], retrievals[u])
        /\ retrievals[t].is_allowed
        /\ retrievals[u].is_allowed
        /\ retrievals[t].at = retrievals[u].at
        => retrievals[t].results = retrievals[u].results

\* two such calls returned two rows that tie in source, confidence and created_at
C14_Witness ==
    \E t, u \in Served :
        /\ t # u
        /\ SameRequest(retrievals[t], retrievals[u])
        /\ retrievals[t].at = retrievals[u].at
        /\ Len(retrievals[t].results) = 2
        /\ retrievals[t].results[1].source = retrievals[t].results[2].source
        /\ retrievals[t].results[1].confidence_score
               = retrievals[t].results[2].confidence_score
        /\ retrievals[t].results[1].created_at = retrievals[t].results[2].created_at

\* the pairs <<M, N>> of the store of retrieval r's query where an evaluation of
\* r's user superseded row M by the new row N, of a subject that r's scope admits
SupersedePairs(r) ==
    {p \in (1..Len(r.at.memories)) \X (1..Len(r.at.memories)) :
        /\ r.at.memories[p[2]].supersedes_memory_id = p[1]
        /\ r.at.memories[p[2]].user_id = r.user_id
        /\ \/ "*" \in Range(scope_or_all(r.scope))
           \/ r.at.memories[p[2]].subject \in Range(scope_or_all(r.scope))}

\* C20 as stated: after a SUPERSEDE of row M by the new row N, a retrieval for
\* that user and subject with state_filter 'superseded' returns M and not N, and
\* one with state_filter 'active' returns N and not M.
C20_SupersedeVisibility ==
    \A t \in Served :
        \A p \in SupersedePairs(retrievals[t]) :
            /\ retrievals[t].state_filter = "superseded" =>
                   /\ p[1] \in Range(Ids(retrievals[t].results))
                   /\ p[2] \notin Range(Ids(retrievals[t].results))
            /\ retrievals[t].state_filter = "active" =>
                   /\ p[2] \in Range(Ids(retrievals[t].results))
                   /\ p[1] \notin Range(Ids(retrievals[t].results))

\* the row's content passes r's query, and r's limit, capped at 20, is not below
\* the number of rows that match r's arguments
Reaches(r, id) ==
    /\ r.query = <<>> \/ Like(latest_content(r.at.memory_versions, id), r.query)
    /\ Cardinality(Matching(r)) <= (IF r.limit < 20 THEN r.limit ELSE 20)

\* C20 amended: the same, for a retrieval whose query the expected row passes and
\* whose limit does not cut the matching rows, while no later evaluation has
\* moved N out of the active state; N is never returned as superseded nor M as
\* active.
C20_SupersedeVisibilityWithinLimit ==
    \A t \in Served :
        \A p \in SupersedePairs(retrievals[t]) :
            retrievals[t].at.memories[p[2]].state = "active"
            =>
            /\ retrievals[t].state_filter = "superseded" =>
                   /\ Reaches(retrievals[t], p[1])
                          => p[1] \in Range(Ids(retrievals[t].results))
                   /\ p[2] \notin Range(Ids(retrievals[t].results))
            /\ retrievals[t].state_filter = "active" =>
                   /\ Reaches(retrievals[t], p[2])
                          => p[2] \in Range(Ids(retrievals[t].results))
                   /\ p[1] \notin Range(Ids(retrievals[t].results))

\* after one SUPERSEDE, one retrieval returned the old row as superseded and
\* another returned the new row as active
C20_Witness ==
    \E t, u \in Served :
        \E p \in SupersedePairs(retrievals[t]) :
            /\ retrievals[t].at = retrievals[u].at
            /\ retrievals[t].state_filter = "superseded"
            /\ Ids(retrievals[t].results) = <<p[1]>>
            /\ retrievals[u].user_id = retrievals[t].user_id
            /\ retrievals[u].state_filter = "active"
            /\ Ids(retrievals[u].results) = <<p[2]>>

\* C15: for every integer limit passed to retrieve_memory (larger than 20, zero
\* or negative included), a successful retrieval returns at most 20 rows.
C15_HardCap ==
    \A t \in Served : Len(retrievals[t].results) <= 20

\* thread t's check_rate_limit returns in this step
RateChecked(t) == retrievals[t].pc = "rate_limit" /\ retrievals'[t].pc # "rate_limit"

\* C16: within one 60-second fixed window and for one user, the k-th
\* retrieve_memory request that passes validation is admitted if and only if
\* k <= 50, in sequence or concurrently; a request that is not admitted returns a
\* status 'error' rate-limit result that carries no results.
C16_RateLimit ==
    [][\A t \in Threads :
           RateChecked(t) =>
               /\ retrievals'[t].is_allowed
                      <=> Observed(retrievals[t].user_id, retrievals[t].current_time) + 1
                              <= 50
               /\ ~retrievals'[t].is_allowed =>
                      /\ retrievals'[t].pc = "done"
                      /\ retrievals'[t].status = "error"
                      /\ retrievals'[t].detail = "rate_limit_exceeded"
                      /\ retrievals'[t].results = <<>>]_vars

\* C17: when the rate-limit storage operation fails, check_rate_limit returns
\* allowed, and the retrieval proceeds to the query instead of returning a
\* rate-limit error.
C17_FailOpen ==
    \A t \in Threads :
        retrievals[t].fault =>
            /\ retrievals[t].is_allowed
            /\ retrievals[t].pc \in {"query", "done"}
            /\ retrievals[t].pc = "done" =>
                   /\ retrievals[t].status = "success"
                   /\ retrievals[t].detail # "rate_limit_exceeded"

\* a retrieval whose rate-limit check failed has run its query and succeeded,
\* and the failed check left no count behind
C17_Witness ==
    \E t \in Threads :
        /\ retrievals[t].fault
        /\ retrievals[t].pc = "done"
        /\ retrievals[t].status = "success"
        /\ rate_limits = {}
        /\ rate_obs # {}

\* the active memories of call c's key (session, user, subject) whose latest
\* content collides with c's content
CollidingActive(c) ==
    {id \in 1..Len(memories) :
        /\ memories[id].session_id = c.session_id
        /\ memories[id].user_id = c.user_id
        /\ memories[id].subject = c.subject
        /\ memories[id].state = "active"
        /\ Collides(c.content, latest_content(memory_versions, id))}

\* thread t's read of the active set returns in this step, without a fault, and
\* the call goes on with a conflict target
TargetChosen(t) ==
    /\ calls[t].pc = "read"
    /\ calls'[t].faults = calls[t].faults
    /\ \/ calls'[t].pc = "cas"
       \/ calls'[t].reason_code = "REJECT_REASON_PRECEDENCE_TOO_LOW"

\* C26: when several active memories of the evaluated key collide with the
\* incoming content, the conflict target chosen by evaluate_and_store is the
\* colliding active memory with the smallest id.
C26_SmallestIdTarget ==
    [][\A t \in Threads :
           TargetChosen(t) =>
               /\ CollidingActive(calls[t]) # {}
               /\ \A id \in CollidingActive(calls[t]) : calls'[t].conflict_id <= id
               /\ calls'[t].conflict_id \in CollidingActive(calls[t])]_vars

\* a call goes for a target while a later active memory of its key collides too
C26_Witness ==
    \E t \in Threads :
        /\ calls[t].pc = "cas"
        /\ calls[t].conflict_id \in CollidingActive(calls[t])
        /\ \E id \in CollidingActive(calls[t]) : id > calls[t].conflict_id

\* the lower-case word set of a compared content, known from how it was made
WordsOf(input) == {Pool[i] : i \in input.words}

\* the collision relation as the words of two contents define it
Colliding(A, B) ==
    /\ A # {}
    /\ B # {}
    /\ 5 * Cardinality(A \cap B) >=
           3 * (IF Cardinality(A) < Cardinality(B) THEN Cardinality(A) ELSE Cardinality(B))

\* C27: two contents collide iff both lower-cased whitespace-split word sets are
\* non-empty and 5 * |A /\ B| >= 3 * min(|A|, |B|); the relation is symmetric,
\* it is reflexive for contents with a non-empty word set, and a content with
\* an empty word set collides with nothing.
C27_CollisionRelation ==
    probe.pc = "done" =>
        LET A == WordsOf(probe.new)
            B == WordsOf(probe.existing)
        IN  /\ probe.new_existing = Colliding(A, B)
            /\ probe.existing_new = probe.new_existing
            /\ probe.new_new = (A # {})
            /\ probe.existing_existing = (B # {})
            /\ (A = {} \/ B = {}) => ~probe.new_existing

\* the boundary: two contents of five words each that share exactly three
C27_Witness ==
    /\ probe.pc = "done"
    /\ Cardinality(WordsOf(probe.new)) = 5
    /\ Cardinality(WordsOf(probe.existing)) = 5
    /\ Cardinality(WordsOf(probe.new) \cap WordsOf(probe.existing)) = 3
    /\ probe.new.style # probe.existing.style
    /\ probe.new_existing


\* thread t's set_memory_state(M, "superseded") returns in this step
CasReturns(t) == calls[t].pc = "cas" /\ calls'[t].pc # "cas"

\* thread t has M superseded by its own CAS and has neither inserted the
\* successor nor rolled back yet
Holds(c, M) == c.pc \in {"insert_supersede", "rollback"} /\ c.conflict_id = M

\* the writer that observed false has inserted nothing and is at the fresh read
\* of its next attempt
Retries(t) ==
    /\ memories' = memories
    /\ memory_versions' = memory_versions
    /\ calls'[t].pc = "read"
    /\ calls'[t].attempt = calls[t].attempt + 1

\* of the writers that read M as active and then execute the CAS, exactly one
\* observes true, and each that observes false starts a new attempt
C28_ExactlyOneCasWinner ==
    [][\A t \in Threads :
           CasReturns(t) =>
               /\ t \in overtaken => calls'[t].db_ret = "false"
               /\ (t \notin overtaken /\ memories[calls[t].conflict_id].state = "active")
                      => calls'[t].db_ret = "true"
               /\ calls'[t].db_ret = "false" => Retries(t)]_vars

\* C28 (amended): of the writers that read row M as active and then execute
\* set_memory_state(M, 'superseded'), one observes true exactly when M is still
\* active at that instant, so that at any time at most one writer holds M
\* between its CAS and its insert or rollback; a second of them observes true
\* only after the first rolled M back to active. A writer that observes false
\* inserts no row in that attempt and starts a new attempt with a fresh read,
\* or returns the error of the exhausted retries when it was its last attempt.
C28_OneCasWinnerAtATime ==
    [][\A t \in Threads :
           CasReturns(t) =>
               /\ calls'[t].db_ret = "true" <=> memories[calls[t].conflict_id].state = "active"
               /\ calls'[t].db_ret = "true" =>
                      /\ Holds(calls'[t], calls[t].conflict_id)
                      /\ memories'[calls[t].conflict_id].state = "superseded"
                      /\ \A u \in Threads \ {t} : ~Holds(calls'[u], calls[t].conflict_id)
               /\ calls'[t].db_ret = "false" =>
                      \/ Retries(t)
                      \/ /\ memories' = memories
                         /\ memory_versions' = memory_versions
                         /\ calls[t].attempt = max_retries - 1
                         /\ calls'[t].pc = "done"
                         /\ calls'[t].status = "error"]_vars

\* a writer has lost the CAS on the row another writer holds, and is back at
\* the read of its next attempt
C28_Witness ==
    \E t \in Threads, u \in Threads :
        /\ t # u
        /\ calls[t].pc = "read"
        /\ calls[t].attempt > 0
        /\ calls[t].db_ret = "false"
        /\ calls[t].conflict_id # 0
        /\ Holds(calls[u], calls[t].conflict_id)
        /\ memories[calls[t].conflict_id].state = "superseded"


\* thread t's rollback set_memory_state(M, "active") returns in this step
RollbackReturns(t) == calls[t].pc = "rollback" /\ calls'[t].pc # "rollback"

\* C29: on the supersede path, when the insert of the new active row returned
\* DUPLICATE, the conflict target is 'active' again when the writer goes to its
\* next attempt, whatever other writers did between its CAS and its rollback.
C29_RollbackRestoresTarget ==
    [][\A t \in Threads :
           RollbackReturns(t) =>
               memories'[calls[t].conflict_id].state = "active"]_vars


\* a direct set_memory_state call returns in this step
SetStateReturns == admin'.n = admin.n + 1

\* would making row id active put two active rows with one (user_id,
\* content_hash) into the table?
ActiveTwice(id) ==
    \E other \in 1..Len(memories) :
        /\ other # id
        /\ memories[other].state = "active"
        /\ memories[other].user_id = memories[id].user_id
        /\ memories[other].content_hash = memories[id].content_hash

\* the call is one that changes the row
Mutates(id, new_state) ==
    /\ id \in 1..Len(memories)
    /\ memories[id].state # new_state
    /\ ~(new_state = "active" /\ ActiveTwice(id))

\* C24: set_memory_state(id, s) changes the row's state to s and returns true
\* iff the row exists, its state differs from s and the change does not put two
\* active rows with one (user_id, content_hash) into the table; otherwise it
\* returns false and changes nothing; called again with the same arguments
\* right after, it returns false.
C24_SetMemoryState ==
    [][SetStateReturns =>
           /\ admin'.ret = Mutates(admin'.memory_id, admin'.new_state)
           /\ admin'.ret =>
                  memories' = [memories EXCEPT ![admin'.memory_id].state = admin'.new_state]
           /\ ~admin'.ret => memories' = memories
           /\ memory_versions' = memory_versions
           /\ (/\ admin.n > 0
               /\ admin.memory_id = admin'.memory_id
               /\ admin.new_state = admin'.new_state
               /\ admin.memories = memories) => ~admin'.ret]_vars

\* a call refused for the second active row it would make
C24_Witness ==
    /\ admin.n = 3
    /\ ~admin.ret
    /\ admin.memories = memories
    /\ admin.new_state = "active"
    /\ admin.memory_id \in 1..Len(memories)
    /\ memories[admin.memory_id].state = "superseded"
    /\ ActiveTwice(admin.memory_id)

\* a successful call repeated at once
C24_WitnessRepeated ==
    /\ admin.n = 2
    /\ ~admin.ret
    /\ admin.memory_id \in 1..Len(memories)
    /\ memories[admin.memory_id].state = admin.new_state
    /\ admin.new_state = "archived"


\* the version rows of a memory
VersionsOf(versions, id) == {v \in versions : v.memory_id = id}

\* every memory has the versions 1..n, n >= 1, each once, and every version row
\* belongs to a memory
VersionsDense(mems, versions) ==
    /\ \A id \in 1..Len(mems) :
           /\ VersionsOf(versions, id) # {}
           /\ \A k \in 1..Cardinality(VersionsOf(versions, id)) :
                  Cardinality({v \in VersionsOf(versions, id) : v.version = k}) = 1
    /\ \A v \in versions : v.memory_id \in 1..Len(mems)

\* thread t's INSERT of edit_memory returns in this step
EditInsertReturns(t) == edits[t].pc = "insert" /\ edits'[t].pc = "done"

\* a table of memories got a row in this step: it came with exactly its version 1
BornWithVersionOne(mems, versions, mems_after, versions_after) ==
    Len(mems_after) > Len(mems) =>
        /\ Len(mems_after) = Len(mems) + 1
        /\ Cardinality(VersionsOf(versions_after, Len(mems_after))) = 1
        /\ \A v \in VersionsOf(versions_after, Len(mems_after)) : v.version = 1

\* C23: for every memory, in the engine's database and in the legacy one, the
\* version numbers present are exactly 1..n, n >= 1; a memory row comes into
\* being together with its version 1; each successful edit_memory appends
\* exactly the version max + 1, an unsuccessful one appends nothing; two
\* concurrent edits of one memory leave neither a gap nor a duplicate.
C23_VersionsDense ==
    [][/\ VersionsDense(memories', memory_versions')
       /\ VersionsDense(legacy_db'.memories, legacy_db'.memory_versions)
       /\ BornWithVersionOne(memories, memory_versions, memories', memory_versions')
       /\ BornWithVersionOne(legacy_db.memories, legacy_db.memory_versions,
                             legacy_db'.memories, legacy_db'.memory_versions)
       /\ \A t \in Threads :
              EditInsertReturns(t) =>
                  /\ legacy_db'.memories = legacy_db.memories
                  /\ legacy_db'.memory_versions =
                         IF edits'[t].ret
                         THEN legacy_db.memory_versions \cup
                                  {[memory_id |-> edits[t].memory_id,
                                    content |-> edits[t].new_content,
                                    version |-> Cardinality(VersionsOf(
                                        legacy_db.memory_versions, edits[t].memory_id)) + 1]}
                         ELSE legacy_db.memory_versions]_vars

\* two edits of one memory of the legacy database read the same maximum; one
\* appended its version, the other one was refused; a second row holds the
\* same content for another session, and the engine's database holds a row
C23_Witness ==
    \E t \in Threads :
        /\ edits[t].pc = "done"
        /\ ~edits[t].ret
        /\ edits[t].new_version = 2
        /\ \E v \in VersionsOf(legacy_db.memory_versions, edits[t].memory_id) :
               /\ v.version = 2
               /\ v.content # edits[t].new_content
        /\ Cardinality(VersionsOf(legacy_db.memory_versions, edits[t].memory_id)) = 2
        /\ Len(legacy_db.memories) = 2
        /\ Len(memories) = 1


\* the text the table holds for a written value
StringForm(value) ==
    CASE value = PyInt(4) -> "4"
      [] value = PyFloat(35) -> "3.5"
      [] value = PyBool(TRUE) -> "True"
      [] value = PyNone -> "None"
      [] OTHER -> value.text

\* C25: after any sequence of set_setting_override calls, get_all_overrides
\* maps each key written to the string form of the value of the last call for
\* that key and has no other key, the table holds one row per key, and a call
\* leaves the rows of the other keys as they were.
C25_LastWriterWins ==
    [][LET got == get_all_overrides(settings_overrides')
       IN  /\ DOMAIN got = {w.key : w \in settings_obs'.last}
           /\ \A w \in settings_obs'.last : got[w.key] = StringForm(w.value)
           /\ \A key \in DOMAIN got :
                  Cardinality({r \in settings_overrides' : r.key = key}) = 1
           /\ \A r \in settings_overrides :
                  r \in settings_overrides' \/
                      \E w \in settings_obs'.last \ settings_obs.last : w.key = r.key]_vars

\* a key written twice with different values, another key written once with a
\* value that is not a string
C25_Witness ==
    /\ settings_obs.n = 3
    /\ [key |-> "memory_extraction_threshold", value |-> "4.0"] \in settings_overrides
    /\ [key |-> "theme", value |-> "3.5"] \in settings_overrides
    /\ Cardinality(settings_overrides) = 2


\* a decimal digit, read off its printed form
Decimal(c) == \E n \in 0..9 : ToString(n) = c

DecimalValue(c) == CHOOSE n \in 0..9 : ToString(n) = c

\* a date text of the form YYYY-MM-DD: four, two and two digits separated by
\* dashes, naming a day of the calendar
StrictDate(d) ==
    /\ Len(d) = 10
    /\ d[5] = "-"
    /\ d[8] = "-"
    /\ \A i \in {1, 2, 3, 4, 6, 7, 9, 10} : Decimal(d[i])
    /\ LET year == 1000 * DecimalValue(d[1]) + 100 * DecimalValue(d[2])
                   + 10 * DecimalValue(d[3]) + DecimalValue(d[4])
           month == 10 * DecimalValue(d[6]) + DecimalValue(d[7])
           day == 10 * DecimalValue(d[9]) + DecimalValue(d[10])
       IN  /\ year >= 1
           /\ month \in 1..12
           /\ day >= 1
           /\ day <= (IF month = 2
                      THEN (IF year % 4 = 0 /\ (year % 100 # 0 \/ year % 400 = 0) THEN 29 ELSE 28)
                      ELSE IF month \in {4, 6, 9, 11} THEN 30 ELSE 31)

\* an importance Python counts as an integer: an int, or a bool
IntegerImportance(value) == value.type \in {"int", "bool"}

\* thread t enters store_memory in this step
Calls(t) == tools[t].pc = "idle" /\ tools'[t].pc # "idle"

\* C30: a store_memory call whose date is not a valid YYYY-MM-DD date, or whose
\* importance is not an integer, returns status 'error' with stored = false
\* without calling the policy engine and with memories, versions and settings
\* unchanged, and a bad date is reported whatever the importance is.
C30_ValidationErrors ==
    [][\A t \in Threads :
           Calls(t) /\ (~StrictDate(tools'[t].args.memory_date)
                        \/ ~IntegerImportance(tools'[t].args.importance))
           => /\ tools'[t].pc = "done"
              /\ tools'[t].result.status = "error"
              /\ tools'[t].result.stored = FALSE
              /\ (~StrictDate(tools'[t].args.memory_date)
                  => tools'[t].result.reason = "Invalid date format")
              /\ (StrictDate(tools'[t].args.memory_date)
                  => tools'[t].result.reason = "Importance must be an integer")
              /\ UNCHANGED <<calls, begun, memories, memory_versions, settings_overrides>>]_vars

\* the number an integer importance is compared as (a bool counts as 1 or 0)
ImportanceValue(value) ==
    IF value.type = "bool" THEN (IF value.b THEN 1 ELSE 0) ELSE value.n

\* the effective threshold in tenths: the memory_extraction_threshold row of
\* the settings table, 3.0 when there is none or its text is no number
EffectiveThreshold ==
    IF \E r \in settings_overrides : r.key = "memory_extraction_threshold"
    THEN LET text == (CHOOSE r \in settings_overrides :
                          r.key = "memory_extraction_threshold").value
         IN  CASE text = "4.0" -> 40
               [] text = "3.5" -> 35
               [] OTHER -> 30
    ELSE 30

\* the call entered by thread t in this step returned 'rejected' with this reason
RejectedFor(t, reason) ==
    /\ tools'[t].pc = "done"
    /\ tools'[t].result.status = "rejected"
    /\ tools'[t].result.reason = reason

\* C21: a store_memory call with a valid date and an integer importance returns
\* 'rejected' with reason 'importance_below_threshold' exactly when the
\* importance is below the effective threshold (an importance equal to it
\* passes), and a call rejected so starts no policy evaluation and changes no
\* memory row.
C21_ThresholdGate ==
    [][\A t \in Threads :
           Calls(t) /\ StrictDate(tools'[t].args.memory_date)
                    /\ IntegerImportance(tools'[t].args.importance)
           => /\ RejectedFor(t, "importance_below_threshold")
                     <=> 10 * ImportanceValue(tools'[t].args.importance) < EffectiveThreshold
              /\ RejectedFor(t, "importance_below_threshold")
                     => UNCHANGED <<calls, begun, memories, memory_versions>>]_vars

\* a subject as the gate compares it: trimmed, then 'General' when nothing is
\* left, and in Title Case otherwise
NormalizedSubject(subject) ==
    IF Strip(subject) = <<>> THEN General ELSE title(Strip(subject))

\* the normalized allow-list the allowed_subjects row of the settings table
\* stands for: its entries normalized, ['*'] when there is no row or the row is
\* not a list of strings
NormalizedAllowList ==
    IF \E r \in settings_overrides : r.key = "allowed_subjects"
    THEN LET text == (CHOOSE r \in settings_overrides : r.key = "allowed_subjects").value
         IN  CASE text = "[\"Work\"]" -> {NormalizedSubject(<<"W", "o", "r", "k">>)}
               [] text = "[\"General\"]" ->
                      {NormalizedSubject(<<"G", "e", "n", "e", "r", "a", "l">>)}
               [] text = "[\"  work  \"]" ->
                      {NormalizedSubject(<<" ", " ", "w", "o", "r", "k", " ", " ">>)}
               [] OTHER -> {<<"*">>}
    ELSE {<<"*">>}

\* C22: a store_memory call that passes the threshold gate returns 'rejected'
\* with reason 'subject_not_allowed' exactly when the normalized allow-list
\* holds neither '*' nor the normalized subject; a call that fails both gates
\* reports 'importance_below_threshold'; a malformed allow-list admits every
\* subject.
C22_SubjectGate ==
    [][\A t \in Threads :
           Calls(t) /\ StrictDate(tools'[t].args.memory_date)
                    /\ IntegerImportance(tools'[t].args.importance)
           => LET passes == 10 * ImportanceValue(tools'[t].args.importance)
                                >= EffectiveThreshold
                  barred == /\ <<"*">> \notin NormalizedAllowList
                            /\ NormalizedSubject(tools'[t].args.subject)
                                   \notin NormalizedAllowList
              IN  /\ passes => (RejectedFor(t, "subject_not_allowed") <=> barred)
                  /\ passes /\ ~barred => tools'[t].pc = "policy"
                  /\ ~passes /\ barred => RejectedFor(t, "importance_below_threshold")]_vars


\* C35: with a single caller, no two active rows of one user and subject hold
\* contents whose lexical overlap is at least 0.60, whatever sessions the
\* proposals came from.
C35_NoCollidingActiveRows ==
    \A i \in 1..Len(memories), j \in 1..Len(memories) :
        (/\ i # j
         /\ memories[i].state = "active"
         /\ memories[j].state = "active"
         /\ memories[i].user_id = memories[j].user_id
         /\ memories[i].subject = memories[j].subject)
        => ~Colliding(Words(latest_content(memory_versions, i)),
                      Words(latest_content(memory_versions, j)))


\* C36: with a single caller every evaluate_and_store call decides in its first
\* attempt: no call starts a second attempt and none returns the error of the
\* exhausted retries.
C36_FirstAttemptDecides ==
    \A t \in Threads :
        /\ calls[t].attempt = 0
        /\ calls[t].reason_code # "max_retries_exceeded"


\* C37: in every reachable state of concurrent evaluate_and_store calls no
\* active row is the target of another row's supersedes_memory_id, and a step
\* that sets a row back to 'active' acts on a row without successor.
C37_ActiveRowHasNoSuccessor ==
    [][\A M \in 1..Len(memories') :
           memories'[M].state = "active" => Successors(M)' = {}]_vars

\* a rollback has set its target back to 'active' after the insert of the
\* successor was refused, while another row of the store has been superseded
\* by its successor
C37_Witness ==
    \E t \in Threads :
        /\ calls[t].pc = "read"
        /\ calls[t].attempt > 0
        /\ calls[t].db_ret = "true"
        /\ memories[calls[t].conflict_id].state = "active"
        /\ Successors(calls[t].conflict_id) = {}
        /\ \E M \in 1..Len(memories) :
               memories[M].state = "superseded" /\ Successors(M) # {}


\* C38: the evaluation path only appends: every step keeps every memory row
\* with all its columns but state, keeps every version row with its content,
\* and gives each new row an id above every id the table has held, so ids
\* increase in commit order and are never used twice.
C38_AppendOnly ==
    [][/\ Len(memories') >= Len(memories)
       /\ \A i \in 1..Len(memories) :
              memories'[i] = [memories[i] EXCEPT !.state = memories'[i].state]
       /\ memory_versions \subseteq memory_versions'
       /\ \A v \in memory_versions' \ memory_versions :
              /\ v.memory_id > Len(memories)
              /\ \A u \in memory_versions :
                     ~(u.memory_id = v.memory_id /\ u.version = v.version)
       /\ \A i \in 1..Len(memories'), j \in 1..Len(memories') :
              i < j => memories'[i].id < memories'[j].id]_vars

\* three rows have been committed, one of them superseded by its successor,
\* while a call has had an insert refused as a duplicate
C38_Witness ==
    /\ Len(memories) >= 3
    /\ \E M \in 1..Len(memories) :
           memories[M].state = "superseded" /\ Successors(M) # {}
    /\ \E t \in Threads : calls[t].db_ret = "duplicate"


\* thread t enters retrieve_memory in this step
Retrieves(t) == retrievals[t].pc = "idle" /\ retrievals'[t].pc # "idle"

\* C34: a retrieve_memory request with an empty user_id, or with a state_filter
\* outside {active, superseded, archived, deleted}, returns status 'error' at
\* once: no rate-limit counter changes and no query runs; the missing user is
\* reported also when the state_filter is invalid as well.
C34_ValidationFirst ==
    [][\A t \in Threads :
           LET no_user == retrievals'[t].user_id = ""
               bad_state == retrievals'[t].state_filter
                                \notin {"active", "superseded", "archived", "deleted"}
           IN  Retrieves(t) /\ (no_user \/ bad_state)
               => /\ retrievals'[t].pc = "done"
                  /\ retrievals'[t].status = "error"
                  /\ retrievals'[t].results = <<>>
                  /\ retrievals'[t].detail =
                         (IF no_user THEN "user_id_required" ELSE "invalid_state_filter")
                  /\ UNCHANGED <<rate_limits, rate_obs>>]_vars

\* a request without user and with an invalid state_filter has been answered
\* with the missing user, and no bucket exists
C34_Witness ==
    \E t \in Threads :
        /\ retrievals[t].pc = "done"
        /\ retrievals[t].user_id = ""
        /\ retrievals[t].state_filter = "bogus"
        /\ retrievals[t].status = "error"
        /\ retrievals[t].detail = "user_id_required"
        /\ rate_limits = {}


\* window_start = t - (t mod W) for the window width W = 60
WindowStart(time) == time - (time % 60)

\* the count of the bucket (user_id, 'retrieve_memory', window_start) in a
\* table of rate limits, 0 when there is no such bucket
BucketCount(limits, user_id, window_start) ==
    LET mine == {r \in limits : /\ r.user_id = user_id
                                /\ r.endpoint = "retrieve_memory"
                                /\ r.window_start = window_start}
    IN  IF mine = {} THEN 0 ELSE (CHOOSE r \in mine : TRUE).request_count

\* would the next request counted in this bucket be admitted?
Admits(limits, user_id, window_start) == BucketCount(limits, user_id, window_start) + 1 <= 50

\* C32: the limiter counts per (user, endpoint, window_start): a request that
\* finds no bucket of its user and window is counted as 1 and admitted, and the
\* check of one user's request never changes whether the next request of
\* another user is admitted, neither in the window of the clock nor in the
\* window a waiting request of that user is about to count in.
C32_PerUserWindows ==
    [][\A t \in Threads :
           RateChecked(t) =>
               LET user_id == retrievals[t].user_id
                   window_start == WindowStart(retrievals[t].current_time)
               IN  /\ BucketCount(rate_limits, user_id, window_start) = 0
                          => /\ retrievals'[t].is_allowed
                             /\ BucketCount(rate_limits', user_id, window_start) = 1
                   /\ \A other \in {"u1", "u2"} \ {user_id} :
                          Admits(rate_limits', other, WindowStart(now))
                              <=> Admits(rate_limits, other, WindowStart(now))
                   /\ \A u \in Threads \ {t} :
                          (retrievals[u].pc = "rate_limit" /\ retrievals[u].user_id # user_id)
                          => (Admits(rate_limits', retrievals[u].user_id,
                                     WindowStart(retrievals[u].current_time))
                                 <=> Admits(rate_limits, retrievals[u].user_id,
                                            WindowStart(retrievals[u].current_time)))]_vars


\* C33: the cleanup inside check_rate_limit deletes no bucket of the window the
\* clock is in, nor of the window of the time the call read: every such bucket
\* of another user or endpoint is in the table after the call with its count,
\* and the requester's own bucket is counted up, never reset.
C33_PruningKeepsCurrentWindow ==
    [][\A t \in Threads :
           RateChecked(t) =>
               \A r \in rate_limits :
                   (\/ r.window_start = WindowStart(now)
                    \/ r.window_start = WindowStart(retrievals[t].current_time))
                   => IF /\ r.user_id = retrievals[t].user_id
                         /\ r.endpoint = "retrieve_memory"
                         /\ r.window_start = WindowStart(retrievals[t].current_time)
                      THEN BucketCount(rate_limits', r.user_id, r.window_start)
                               = r.request_count + 1
                      ELSE r \in rate_limits']_vars

\* a request of one user has pruned the buckets of the previous window while
\* the bucket of another user for the current window stayed with its count
C33_Witness ==
    /\ now = 61
    /\ BucketCount(rate_limits, "u2", 60) = 1
    /\ BucketCount(rate_limits, "u1", 60) >= 1
    /\ \A r \in rate_limits : r.window_start = 60
    /\ \E o \in rate_obs : o.window = 0


\* thread t enters MemoryTool.retrieve_memory in this step
Looks(t) == lookups[t].pc = "idle" /\ lookups'[t].pc # "idle"

\* the list passed as scope, empty for None
ScopeList(q) == IF q.scope = <<>> THEN <<>> ELSE q.scope[1]

\* the allowed_subjects row of the settings table holds this text
AllowListIs(text) == [key |-> "allowed_subjects", value |-> text] \in settings_overrides

\* C31: a MemoryTool.retrieve_memory call whose scope holds a subject whose
\* normalized form is not in the normalized allow-list, the allow-list holding
\* no '*', returns status 'error' without calling the policy engine: no
\* retrieval starts, no rate-limit bucket changes and no query runs. Under the
\* allow-list ['Work'] the scope ['Hobbies'] is rejected so, and the scope
\* ['  work  '] reaches the policy engine as ['Work'].
C31_ScopeCheck ==
    [][/\ \A t \in Threads :
              Looks(t) =>
                  LET scope == ScopeList(lookups'[t].args)
                      barred == /\ <<"*">> \notin NormalizedAllowList
                                /\ \E i \in 1..Len(scope) :
                                       NormalizedSubject(scope[i]) \notin NormalizedAllowList
                  IN  /\ barred => /\ lookups'[t].pc = "done"
                                   /\ lookups'[t].result.status = "error"
                                   /\ UNCHANGED <<retrievals, rate_limits, rate_obs, requested>>
                      /\ (AllowListIs("[\"Work\"]") /\ scope = <<S_Hobbies>>) => barred
                      /\ (AllowListIs("[\"Work\"]") /\ scope = <<S_work_blanks>>)
                             => /\ lookups'[t].pc = "delegate"
                                /\ lookups'[t].final_scope = << <<"Work">> >>
       /\ \A u \in Threads :
              (lookups[u].pc = "delegate" /\ lookups'[u].pc = "policy")
              => /\ retrievals'[u].pc = "rate_limit"
                 /\ retrievals'[u].scope = lookups[u].final_scope]_vars

\* under the allow-list ['Work'] a call with scope ['Hobbies'] has returned the
\* error while the user holds an active row of that subject and the bucket of
\* an earlier call stands at 1
C31_Witness ==
    \E t \in Threads :
        /\ lookups[t].pc = "done"
        /\ lookups[t].result.status = "error"
        /\ lookups[t].args.scope = << <<S_Hobbies>> >>
        /\ AllowListIs("[\"Work\"]")
        /\ retrievals[t].pc = "idle"
        /\ BucketCount(rate_limits, "u1", 0) = 1
        /\ \E i \in 1..Len(memories) :
               /\ memories[i].user_id = "u1"
               /\ memories[i].subject = "Hobbies"
               /\ memories[i].state = "active"

\* under the allow-list ['Work'] a call with scope ['  work  '] has been served
\* with a row of the subject Work
C31_WitnessAdmitted ==
    \E t \in Threads :
        /\ lookups[t].pc = "policy"
        /\ lookups[t].args.scope = << <<S_work_blanks>> >>
        /\ AllowListIs("[\"Work\"]")
        /\ retrievals[t].pc = "done"
        /\ retrievals[t].status = "success"
        /\ Len(retrievals[t].results) >= 1


\* C39: in a store filled through MemoryTool.store_memory alone no call returns
\* REJECT_REASON_PRECEDENCE_TOO_LOW, and every call whose proposal collided
\* with an active row of other content returns the supersede decision with that
\* row superseded.
C39_FacadeSupersedes ==
    \A t \in Threads :
        (tools[t].pc = "policy" /\ calls[t].pc = "done")
        => /\ calls[t].reason_code # "REJECT_REASON_PRECEDENCE_TOO_LOW"
           /\ calls[t].conflict_id # 0
              => /\ calls[t].status = "success"
                 /\ calls[t].reason_code = "SUPERSEDE_REASON_CONTENT_OVERLAP"
                 /\ memories[calls[t].conflict_id].state = "superseded"

\* the part of C39 about the precedence rule alone
C39_NeverRejected ==
    \A t \in Threads :
        tools[t].pc = "policy" => calls[t].reason_code # "REJECT_REASON_PRECEDENCE_TOO_LOW"


\* the last k messages of a list, in their order
LastMessages(messages, k) ==
    SubSeq(messages, Len(messages) - k + 1, Len(messages))

\* C40: MemoryManager.prune(messages, reserve) returns the last
\* max(0, MAX_CHAT_HISTORY - reserve) messages in their order when the input is
\* longer than that bound and the input unchanged otherwise, so that for every
\* reserve >= 0 the result is at most max(0, MAX_CHAT_HISTORY - reserve) long.
C40_PruneBound ==
    history.pruned =>
        LET bound == Max({0, MAX_CHAT_HISTORY - history.reserve})
        IN  /\ history.result = IF Len(history.input) > bound
                                THEN LastMessages(history.input, bound)
                                ELSE history.input
            /\ Len(history.result) <= bound

\* the part of C40 for the reserves below MAX_CHAT_HISTORY
C40_PruneBoundBelowMax ==
    (history.pruned /\ history.reserve < MAX_CHAT_HISTORY) =>
        LET bound == MAX_CHAT_HISTORY - history.reserve
        IN  /\ history.result = IF Len(history.input) > bound
                                THEN LastMessages(history.input, bound)
                                ELSE history.input
            /\ Len(history.result) <= bound

====
